---- MODULE Spec2Model ----
(***************************************************************************)
(* A model of the hook engine and the streaming buffer of llm-event-hooks. *)
(*                                                                         *)
(*   HookManager          src/src/core/HookManager.ts        (SpecHM)      *)
(*   HookableEventEmitter src/unnamed/part_002               (SpecEE)      *)
(*   StreamBuffer         src/src/streaming/StreamBuffer.ts  (SpecSB)      *)
(*   BufferManager        src/unnamed/part_004               (SpecBM)      *)
(*   validateBufferConfig src/src/events/BufferEvent.ts      (SpecVC)      *)
(*   HookableLLM          src/src/core/HookableLLM.ts        (SpecLLM)     *)
(*   ChunkEvent           src/unnamed/part_005               (SpecCK)      *)
(*   flushAllBuffers      src/unnamed/part_004               (SpecFA)      *)
(*   ConversationHistory  src/src/errors/index.ts            (SpecCH)      *)
(*   JSONFilePersistence  src/src/persistence/...            (SpecJP)      *)
(*   updateConfig         src/src/streaming/StreamBuffer.ts  (SpecUC)      *)
(*                                                                         *)
(* One event kind is modelled per registry.  A payload is the sequence of  *)
(* the ids of the hooks that replaced it so far: a hook that returns a     *)
(* value returns its input with its own id appended, so that every         *)
(* replacement is visible in the payload.                                  *)
(*                                                                         *)
(* JavaScript runs one continuation at a time.  An action of the model is  *)
(* one run-to-completion stretch of code: from a call or the resumption of *)
(* an await up to the next await.                                          *)
(***************************************************************************)
EXTENDS Integers, Sequences, FiniteSets, TLC

\* ---------------------------------------------------------------- bounds
\* registrations ever made on the HookManager
MaxHooks == 3
\* registrations made in the runs with two dispatches
MaxOverlapHooks == 2

\* the options registerHook is called with: two priorities, and hooks with a
\* timeout among those of the first priority (hooks of equal priority keep
\* their registration order, so such a hook can stand at any place)
PlainOptions == {[priority |-> 10, timeout |-> FALSE], [priority |-> 20, timeout |-> FALSE],
                 [priority |-> 10, timeout |-> TRUE]}
\* the options registerOneTimeHook is called with
OneTimeOptions == {[priority |-> 10, timeout |-> FALSE], [priority |-> 10, timeout |-> TRUE]}

VARIABLES
    \* HookManager.hookRegistrations.get(event): the live, sorted array
    hookRegistrations,
    \* number of registrations made so far; ids are 1, 2, ... in registration order
    hmRegistered,
    \* per dispatch: "none" (not called) | "run" (awaiting the current hook) |
    \* "done" (result returned)
    hmPhase,
    \* per dispatch: position of the array iterator (index of the current hook)
    hmIdx,
    \* per dispatch: the registration whose hook is being awaited
    hmCur,
    \* per dispatch: the local variable data
    hmData,
    \* per dispatch: the HookExecutionResult under construction
    hmResult,
    \* invocations that timed out and are still running
    hmLate,
    \* history: per dispatch, the array as it stood when the dispatch started
    hmSnap,
    \* history: per dispatch, the invocations made, in order
    hmLog,
    \* history: per dispatch, whether registerHook / registerOneTimeHook was
    \* called while it was in flight
    hmMutated,
    \* history: per id of a one-time hook, how often the user's callback was
    \* called
    hmCalls

hmVars == <<hookRegistrations, hmRegistered, hmPhase, hmIdx, hmCur, hmData,
            hmResult, hmLate, hmSnap, hmLog, hmMutated, hmCalls>>

\* the dispatches (executeHooksWithMonitoring calls) of a run
Dispatches == {1, 2}

VARIABLES
    \* HookableEventEmitter.hookRegistrations.get(event): the live, sorted array
    emitterRegistrations,
    \* HookableEventEmitter.nextHookId
    nextHookId,
    \* executeHooks: "none" (not called) | "run" (awaiting the current hook) |
    \* "done" (a payload returned) | "rejected" (the call rejected)
    eePhase,
    \* executeHooks: position of the array iterator
    eeIdx,
    \* executeHooks: the registration whose hook is being awaited
    eeCur,
    \* executeHooks: the local variable currentData
    eeData,
    \* history: the array as it stood when executeHooks was called
    eeSnap,
    \* history: the invocations made, in order
    eeLog,
    \* history: whether on / once was called while executeHooks was in flight
    eeMutated

eeVars == <<emitterRegistrations, nextHookId, eePhase, eeIdx, eeCur, eeData, eeSnap,
            eeLog, eeMutated>>
HookIds == 1..MaxHooks

VARIABLES
    \* StreamBuffer.config: strategy, maxSize, maxTime
    config,
    \* StreamBuffer.chunks
    chunks,
    \* StreamBuffer.isActive
    isActive,
    \* StreamBuffer.createdAt and lastChunkTime, on the clock now
    createdAt, lastChunkTime,
    \* StreamBuffer.flushTimeout: the time the setTimeout of startFlushTimer is
    \* due at, or -1 when no timer is pending
    flushTimeout,
    \* StreamBuffer.totalChunksAdded and totalFlushes
    totalChunksAdded, totalFlushes,
    \* the clock (Date.now())
    now,
    \* the setImmediate callbacks addChunk has scheduled and that have not run:
    \* the flush reason of each, in order
    immediates,
    \* the flush calls that are awaiting the flush pipeline: who called,
    \* chunksToFlush and the reason of each
    flights,
    \* what the last addChunk returned
    lastAdd,
    \* history: the number of chunks handed to addChunk, and those it accepted
    offered, accepted,
    \* history: per chunk, how often it was handed to the flush pipeline, and
    \* how often a flush or destroy call returned it to its caller
    delivered, returned,
    \* history: how the last flush call of the owner that has ended did end,
    \* with the chunks it returned (or was flushing when it threw)
    lastFlush,
    \* history: the chunks of the flushes whose pipeline rejected
    failed

sbVars == <<config, chunks, isActive, createdAt, lastChunkTime, flushTimeout,
            totalChunksAdded, totalFlushes, now, immediates, flights, lastAdd,
            offered, accepted, delivered, returned, lastFlush, failed>>

VARIABLES
    \* BufferManager.buffers: per buffer id the BufferInfo with its StreamBuffer,
    \* or NoBuffer where the map has no entry
    buffers,
    \* BufferManager.totalChunksProcessed
    totalChunksProcessed,
    \* the clock of the manager (Date.now())
    bmNow,
    \* history: the number of calls made on the manager, and what the last one
    \* returned or threw
    bmCalls, bmLast,
    \* history: the number of chunks handed to BufferManager.addChunk
    bmOffered

bmVars == <<buffers, totalChunksProcessed, bmNow, bmCalls, bmLast, bmOffered>>

VARIABLES
    \* the configuration last handed to validateBufferConfig, and its result
    vcConfig, vcResult

vcVars == <<vcConfig, vcResult>>

VARIABLES
    \* history: the number of unregisterHookById / unregisterHook calls the
    \* integrator made, and the id and the return value of the last one
    hmUnregisterCalls, hmLastUnregister,
    \* history: the ids of the registrations whose function was handed to
    \* unregisterHook before the dispatch
    hmOff

hrVars == <<hmUnregisterCalls, hmLastUnregister, hmOff>>

VARIABLES
    \* HookableLLM.isInitialized
    isInitialized,
    \* an initialize() call awaits the answer of the service's model list
    initializing,
    \* the 'message:before' hooks held by HookableLLM.hookManager and by
    \* HookableLLM.messageEvent
    managerHooks, messageHooks,
    \* the run() or runStream() call in flight and its position
    llmCall,
    \* the number of buffers held by HookableLLM.bufferManager
    llmBufferCount,
    \* history: the initialize, run, runStream and cleanup calls made, in
    \* order, and how the last call that ended has ended
    llmCalls, llmLast

llmVars == <<isInitialized, initializing, managerHooks, messageHooks, llmCall,
             llmBufferCount, llmCalls, llmLast>>

VARIABLES
    \* ChunkEvent.createChunksFromText: its arguments text, options.chunkSize
    \* and options.overlap, and its locals i and chunks
    ckText, ckChunkSize, ckOverlap, ckI, ckChunks,
    \* where the call stands: "idle", "loop", "returned", and "merged" after
    \* mergeChunks was applied to the chunks returned
    ckPc,
    \* the text mergeChunks returned
    ckMerged,
    \* history: whether the number of iterations of the loop so far is odd
    ckOdd

ckVars == <<ckText, ckChunkSize, ckOverlap, ckI, ckChunks, ckPc, ckMerged, ckOdd>>

VARIABLES
    \* the keys of BufferManager.buffers in insertion order, the order a Map is
    \* iterated in
    faOrder,
    \* the flushAllBuffers call in flight: the keys present when it was
    \* called, the entries its iterator has passed, the buffer whose flush it
    \* awaits with the chunks that flush took, and its results; history:
    \* whether a buffer was created or removed while the call was in flight
    faCall

faVars == <<faOrder, faCall>>

VARIABLES
    \* conversation.messages of one conversation of a ConversationHistory
    chMessages,
    \* history: the number of messages handed to addMessage and addMessages so
    \* far (a message is modelled by its number), and the last call: its
    \* messages, its enforceMessageLimit and the message list it found
    chAdded, chLast

chVars == <<chMessages, chAdded, chLast>>

VARIABLES
    \* the ids of the conversations in the file of a JSONFilePersistence
    jpFile,
    \* the saveConversation and deleteConversation calls in flight, each with
    \* its position and the file content it loaded
    jpOps,
    \* history: the number of calls made, and the ids a conversation was last
    \* saved under and not deleted since, by the calls that have returned
    jpCalls, jpSaved

jpVars == <<jpFile, jpOps, jpCalls, jpSaved>>

VARIABLES
    \* history: the number of StreamBuffer.updateConfig calls made, and of the
    \* last one whether its merged configuration was valid and whether it threw
    ucCalls, ucLast

ucVars == <<ucCalls, ucLast>>

\* the components modelled on their own
moreVars == <<llmVars, ckVars, faVars, chVars, jpVars, ucVars>>

vars == <<hmVars, eeVars, sbVars, bmVars, vcVars, hrVars, moreVars>>

\* ------------------------------------------------------- HookManager: helpers
NoReg == [id |-> 0, priority |-> 0, oneTime |-> FALSE, timeout |-> FALSE]

\* Array.prototype.sort((a, b) => a.priority - b.priority) is a stable sort:
\* insertion of x behind every element that does not compare greater
InsertByPriority(sorted, x) ==
    LET k == IF \A i \in 1..Len(sorted) : sorted[i].priority <= x.priority
            THEN Len(sorted)
            ELSE (CHOOSE i \in 1..Len(sorted) :
                     /\ sorted[i].priority > x.priority
                     /\ \A j \in 1..(i-1) : sorted[j].priority <= x.priority) - 1
    IN  SubSeq(sorted, 1, k) \o <<x>> \o SubSeq(sorted, k+1, Len(sorted))

RECURSIVE SortByPriority(_)
SortByPriority(s) ==
    IF s = <<>> THEN <<>>
    ELSE InsertByPriority(SortByPriority(SubSeq(s, 1, Len(s)-1)), s[Len(s)])

\* a registry that pushes and does not sort
PushUnsorted(regs, reg) == Append(regs, reg)

\* registrations.push(registration); registrations.sort(...)
PushAndSort(regs, reg) == SortByPriority(Append(regs, reg))

\* an unregistration that cuts the array off at the registration: splice(index)
RemoveFromId(regs, hookId) ==
    IF \E i \in 1..Len(regs) : regs[i].id = hookId
    THEN LET i == CHOOSE i \in 1..Len(regs) : regs[i].id = hookId
         IN  SubSeq(regs, 1, i-1)
    ELSE regs

\* registrations.findIndex(reg => reg.id === hookId) and splice(index, 1)
RemoveById(regs, hookId) ==
    IF \E i \in 1..Len(regs) : regs[i].id = hookId
    THEN LET i == CHOOSE i \in 1..Len(regs) :
                     /\ regs[i].id = hookId
                     /\ \A j \in 1..(i-1) : regs[j].id # hookId
         IN  SubSeq(regs, 1, i-1) \o SubSeq(regs, i+1, Len(regs))
    ELSE regs

EmptyResult == [hookCount |-> 0, executedHooks |-> <<>>, errors |-> <<>>,
                modifiedData |-> <<>>]

InFlight(d) == hmPhase[d] = "run"

\* a registration is made while dispatches are in flight
MarkMutated == [d \in Dispatches |-> hmMutated[d] \/ InFlight(d)]

\* --------------------------------------------------------- HookManager: state
HMInit ==
    /\ hookRegistrations = <<>>
    /\ hmRegistered = 0
    /\ hmPhase = [d \in Dispatches |-> "none"]
    /\ hmIdx = [d \in Dispatches |-> 0]
    /\ hmCur = [d \in Dispatches |-> NoReg]
    /\ hmData = [d \in Dispatches |-> <<>>]
    /\ hmResult = [d \in Dispatches |-> EmptyResult]
    /\ hmLate = {}
    /\ hmSnap = [d \in Dispatches |-> <<>>]
    /\ hmLog = [d \in Dispatches |-> <<>>]
    /\ hmMutated = [d \in Dispatches |-> FALSE]
    /\ hmCalls = [h \in HookIds |-> 0]

\* HookManager.registerHook(event, hook, {priority, timeout})
registerHook(p, t) ==
    /\ hmRegistered < MaxHooks
    /\ hmRegistered' = hmRegistered + 1
    /\ hookRegistrations' = PushAndSort(hookRegistrations,
          [id |-> hmRegistered + 1, priority |-> p, oneTime |-> FALSE, timeout |-> t])
    /\ hmMutated' = MarkMutated
    /\ UNCHANGED <<hmPhase, hmIdx, hmCur, hmData, hmResult, hmLate, hmSnap,
                   hmLog, hmCalls>>

\* HookManager.registerOneTimeHook(event, hook, {priority, timeout})
registerOneTimeHook(p, t) ==
    /\ hmRegistered < MaxHooks
    /\ hmRegistered' = hmRegistered + 1
    /\ hookRegistrations' = PushAndSort(hookRegistrations,
          [id |-> hmRegistered + 1, priority |-> p, oneTime |-> TRUE, timeout |-> t])
    /\ hmMutated' = MarkMutated
    /\ UNCHANGED <<hmPhase, hmIdx, hmCur, hmData, hmResult, hmLate, hmSnap,
                   hmLog, hmCalls>>

\* HookManager.unregisterHookById(hookId), called by the integrator
unregisterHookById(hookId) ==
    /\ hookId <= hmRegistered
    /\ hookRegistrations' = RemoveById(hookRegistrations, hookId)
    /\ UNCHANGED <<hmMutated, hmRegistered, hmPhase, hmIdx, hmCur, hmData, hmResult,
                   hmLate, hmSnap, hmLog, hmCalls>>

\* registrations.findIndex(reg => reg.hook === hook), line 236, for the
\* function that was given to the registration call that returned hookId:
\* registerHook stores the function itself, registerOneTimeHook stores
\* wrappedHook (lines 153-176)
FoundByFunction(regs, hookId) ==
    \E i \in 1..Len(regs) : regs[i].id = hookId /\ ~regs[i].oneTime

\* HookManager.unregisterHook(event, hook), lines 232-250 (HookableLLM.off),
\* with the function of registration hookId
unregisterHook(hookId) ==
    /\ hookId <= hmRegistered
    /\ hookRegistrations' = IF FoundByFunction(hookRegistrations, hookId)
                            THEN RemoveById(hookRegistrations, hookId)
                            ELSE hookRegistrations
    /\ UNCHANGED <<hmMutated, hmRegistered, hmPhase, hmIdx, hmCur, hmData, hmResult,
                   hmLate, hmSnap, hmLog, hmCalls>>

\* what unregisterHookById(hookId) returns, lines 213-228
UnregisterByIdReturns(regs, hookId) == \E i \in 1..Len(regs) : regs[i].id = hookId

\* unregistrations the integrator makes
MaxUnregisterCalls == 3

HRInit ==
    /\ hmUnregisterCalls = 0
    /\ hmLastUnregister = [id |-> 0, by |-> "none", returned |-> FALSE]
    /\ hmOff = {}

\* the integrator calls unregisterHookById(hookId) and keeps what it returns
UnregistersById(hookId) ==
    /\ hmUnregisterCalls < MaxUnregisterCalls
    /\ unregisterHookById(hookId)
    /\ hmUnregisterCalls' = hmUnregisterCalls + 1
    /\ hmLastUnregister' = [id |-> hookId, by |-> "id",
                            returned |-> UnregisterByIdReturns(hookRegistrations, hookId)]
    /\ UNCHANGED hmOff

\* the integrator calls off(event, fn) with the function of registration
\* hookId before it dispatches the event
UnregistersByFunction(hookId) ==
    /\ hmUnregisterCalls < MaxUnregisterCalls
    /\ hmPhase[1] = "none"
    /\ unregisterHook(hookId)
    /\ hmUnregisterCalls' = hmUnregisterCalls + 1
    /\ hmLastUnregister' = [id |-> hookId, by |-> "function",
                            returned |-> FoundByFunction(hookRegistrations, hookId)]
    /\ hmOff' = hmOff \cup {hookId}

\* the try block after the await, lines 286-304; hookResult is <<v>> for a
\* value v and <<>> for undefined
RecordSuccess(result, reg, hookResult) ==
    [result EXCEPT !.executedHooks = Append(@, reg.id),
                   !.modifiedData = IF hookResult # <<>> THEN hookResult[1] ELSE @]

\* the catch block, lines 312-340
RecordError(result, reg, kind) ==
    [result EXCEPT !.errors = Append(@, [hookId |-> reg.id, kind |-> kind])]

\* the original payload of every dispatch
OriginalPayload == <<>>

\* a dispatcher that assigns every result, undefined too
NextDataAlways(data, hookResult) ==
    IF hookResult # <<>> THEN hookResult[1] ELSE OriginalPayload

\* "if (hookResult !== undefined) data = hookResult", line 301
NextData(data, hookResult) == IF hookResult # <<>> THEN hookResult[1] ELSE data

\* the first argument of registration.hook(data, context), lines 283-284
HookArgument(data) == data

\* what the hook of reg makes of its input when it settles as out
HookResult(reg, input, out) == IF out = "value" THEN <<Append(input, reg.id)>> ELSE <<>>

\* One step of "for (const registration of registrations)": the array iterator
\* reads the live array regs at index i; past its end the loop is over and
\* the result is returned, otherwise registration.hook(data, context) is
\* called and awaited.
IterateFrom(d, regs, i, data, result, log) ==
    /\ hmIdx' = [hmIdx EXCEPT ![d] = i]
    /\ hmData' = [hmData EXCEPT ![d] = data]
    /\ hmResult' = [hmResult EXCEPT ![d] = result]
    /\ IF i <= Len(regs)
       THEN /\ hmPhase' = [hmPhase EXCEPT ![d] = "run"]
            /\ hmCur' = [hmCur EXCEPT ![d] = regs[i]]
            /\ hmCalls' = [hmCalls EXCEPT ![regs[i].id] =
                              IF regs[i].oneTime THEN @ + 1 ELSE @]
            /\ hmLog' = [hmLog EXCEPT ![d] = Append(log,
                   [id |-> regs[i].id, priority |-> regs[i].priority,
                    input |-> HookArgument(data), out |-> "pending"])]
       ELSE /\ hmPhase' = [hmPhase EXCEPT ![d] = "done"]
            /\ hmCur' = [hmCur EXCEPT ![d] = NoReg]
            /\ hmLog' = [hmLog EXCEPT ![d] = log]
            /\ UNCHANGED hmCalls

\* HookManager.executeHooksWithMonitoring(event, data, context): up to the
\* first await
executeHooksWithMonitoring(d) ==
    /\ hmPhase[d] = "none"
    /\ \A e \in Dispatches : e < d => hmPhase[e] # "none"
    /\ hmSnap' = [hmSnap EXCEPT ![d] = hookRegistrations]
    /\ IterateFrom(d, hookRegistrations, 1, OriginalPayload,
          [hookCount |-> Len(hookRegistrations), executedHooks |-> <<>>,
           errors |-> <<>>, modifiedData |-> OriginalPayload], <<>>)
    /\ UNCHANGED <<hookRegistrations, hmRegistered, hmLate, hmMutated>>

\* the log with the outcome of the last invocation filled in
Logged(d, out) == [hmLog[d] EXCEPT ![Len(hmLog[d])].out = out]

\* The awaited hook settles (it returned a value, returned undefined, or
\* threw) and the dispatcher resumes: it records the outcome and goes on to
\* the next element of the live array.  A one-time hook's wrapper
\* unregisters it before the dispatcher resumes (lines 153-169).
HookSettles(d, out) ==
    /\ hmPhase[d] = "run"
    /\ LET regs == IF hmCur[d].oneTime
                   THEN RemoveById(hookRegistrations, hmCur[d].id)
                   ELSE hookRegistrations
           hookResult == HookResult(hmCur[d], hmLog[d][Len(hmLog[d])].input, out)
       IN  /\ hookRegistrations' = regs
           /\ IF out = "throw"
              THEN IterateFrom(d, regs, hmIdx[d] + 1, hmData[d],
                      RecordError(hmResult[d], hmCur[d], "error"), Logged(d, out))
              ELSE IterateFrom(d, regs, hmIdx[d] + 1, NextData(hmData[d], hookResult),
                      RecordSuccess(hmResult[d], hmCur[d], hookResult), Logged(d, out))
    /\ UNCHANGED <<hmRegistered, hmLate, hmSnap, hmMutated>>

\* a dispatcher that took the value of a hook that timed out
OnTimeoutTakeValue(d) ==
    LET late == HookResult(hmCur[d], hmLog[d][Len(hmLog[d])].input, "value") IN
    IterateFrom(d, hookRegistrations, hmIdx[d] + 1, NextData(hmData[d], late),
                RecordError(hmResult[d], hmCur[d], "timeout"), Logged(d, "timeout"))

\* what the dispatcher does when the timer of executeWithTimeout fires:
\* the awaited promise is rejected, so the catch block runs
OnTimeout(d) ==
    IterateFrom(d, hookRegistrations, hmIdx[d] + 1, hmData[d],
                RecordError(hmResult[d], hmCur[d], "timeout"), Logged(d, "timeout"))

\* executeWithTimeout (lines 359-379): the timer fires before the hook
\* settles; the hook itself keeps running
TimeoutFires(d) ==
    /\ hmPhase[d] = "run"
    /\ hmCur[d].timeout
    /\ hmLate' = hmLate \cup {[id |-> hmCur[d].id, oneTime |-> hmCur[d].oneTime]}
    /\ OnTimeout(d)
    /\ UNCHANGED <<hookRegistrations, hmRegistered, hmSnap, hmMutated>>

\* A hook that timed out settles at last: resolve / reject of the promise
\* that the timer already rejected has no effect; a one-time hook's wrapper
\* still unregisters it
LateSettles(l) ==
    /\ l \in hmLate
    /\ hmLate' = hmLate \ {l}
    /\ hookRegistrations' = IF l.oneTime
                            THEN RemoveById(hookRegistrations, l.id)
                            ELSE hookRegistrations
    /\ UNCHANGED <<hmRegistered, hmPhase, hmIdx, hmCur, hmData, hmResult,
                   hmSnap, hmLog, hmMutated, hmCalls>>

\* ------------------------------------------------------ HookManager: claims
LogIds(log) == [i \in 1..Len(log) |-> log[i].id]
RegIds(regs) == [i \in 1..Len(regs) |-> regs[i].id]
Ran(f) == {f[i] : i \in DOMAIN f}

\* the ids, in order, of the entries of log whose outcome is in outs
RECURSIVE IdsWithOut(_, _)
IdsWithOut(log, outs) ==
    IF log = <<>> THEN <<>>
    ELSE LET rest == IdsWithOut(SubSeq(log, 1, Len(log)-1), outs)
             last == log[Len(log)]
         IN  IF last.out \in outs THEN Append(rest, last.id) ELSE rest

\* the errors a log accounts for, in order
RECURSIVE ErrorsOf(_)
ErrorsOf(log) ==
    IF log = <<>> THEN <<>>
    ELSE LET rest == ErrorsOf(SubSeq(log, 1, Len(log)-1))
             last == log[Len(log)]
         IN  IF last.out = "throw" THEN Append(rest, [hookId |-> last.id, kind |-> "error"])
             ELSE IF last.out = "timeout"
                  THEN Append(rest, [hookId |-> last.id, kind |-> "timeout"])
                  ELSE rest

\* a invoked before b: lower priority first, equal priorities in registration order
Before(a, b) ==
    \/ a.priority < b.priority
    \/ a.priority = b.priority /\ a.id < b.id

\* C1: a dispatch during which no hook is registered invokes hooks in
\* non-decreasing priority order, and hooks of equal priority in the order of
\* their registration.
C1_PriorityOrder ==
    \A d \in Dispatches :
        ~hmMutated[d] =>
            \A i, j \in 1..Len(hmLog[d]) : i < j => Before(hmLog[d][i], hmLog[d][j])

\* three hooks were invoked: two of the first priority in their registration
\* order, then one of the second priority that was registered before them
C1_Witness ==
    /\ hmPhase[1] = "done"
    /\ ~hmMutated[1]
    /\ Len(hmLog[1]) = 3
    /\ hmLog[1][1].priority = hmLog[1][2].priority
    /\ hmLog[1][2].priority < hmLog[1][3].priority
    /\ hmLog[1][3].id < hmLog[1][1].id

\* every hook that a finished dispatch found missing from the registry is a
\* one-time hook that the dispatch itself invoked, and no hook was registered
\* meanwhile: nothing but the hooks of this dispatch changed the registry
OnlySelfRemovals(d) ==
    /\ ~hmMutated[d]
    /\ \A k \in 1..Len(hmSnap[d]) :
          hmSnap[d][k].id \notin Ran(RegIds(hookRegistrations)) =>
              /\ hmSnap[d][k].oneTime
              /\ hmSnap[d][k].id \in Ran(LogIds(hmLog[d]))

\* C2: a failing hook does not stop the dispatch: every hook behind it in
\* priority order is still invoked, and at the end errors holds exactly the
\* failed hooks and executedHooks exactly the succeeded ones.
C2_FailureIsolated ==
    \A d \in Dispatches :
        (hmPhase[d] = "done" /\ OnlySelfRemovals(d)) =>
            /\ \A k \in 1..Len(hmSnap[d]) :
                  (\E j \in 1..(k-1) :
                      \E i \in 1..Len(hmLog[d]) :
                          /\ hmLog[d][i].id = hmSnap[d][j].id
                          /\ hmLog[d][i].out \in {"throw", "timeout"})
                  => hmSnap[d][k].id \in Ran(LogIds(hmLog[d]))
            /\ hmResult[d].errors = ErrorsOf(hmLog[d])
            /\ hmResult[d].executedHooks = IdsWithOut(hmLog[d], {"value", "undef"})

\* the accounting half of C2 alone
C2_Accounting ==
    \A d \in Dispatches :
        hmPhase[d] = "done" =>
            /\ hmResult[d].errors = ErrorsOf(hmLog[d])
            /\ hmResult[d].executedHooks = IdsWithOut(hmLog[d], {"value", "undef"})

\* a one-time hook is running: a dispatch awaits it, or it timed out and has
\* not settled
Running(h) ==
    \/ \E d \in Dispatches : hmPhase[d] = "run" /\ hmCur[d].id = h
    \/ \E l \in hmLate : l.id = h

\* C5: the callback of a one-time hook is invoked at most once, whatever the
\* dispatches, and once its invocation is over it is no longer registered.
C5_OneShotOnce ==
    \A h \in HookIds :
        /\ hmCalls[h] <= 1
        /\ (hmCalls[h] >= 1 /\ ~Running(h)) => h \notin Ran(RegIds(hookRegistrations))

\* the second half of C5 alone
C5_GoneAfterInvocation ==
    \A h \in HookIds :
        (hmCalls[h] >= 1 /\ ~Running(h)) => h \notin Ran(RegIds(hookRegistrations))

\* C6: a dispatch invokes the hooks of the registry as it stood when the
\* dispatch started, none added and none skipped.
C6_Snapshot ==
    \A d \in Dispatches :
        /\ Len(hmLog[d]) <= Len(hmSnap[d])
        /\ LogIds(hmLog[d]) = SubSeq(RegIds(hmSnap[d]), 1, Len(hmLog[d]))
        /\ hmPhase[d] = "done" => Len(hmLog[d]) = Len(hmSnap[d])

\* C7: a hook that timed out is recorded as failed with a timeout error, the
\* next hook gets the payload the timed-out hook got, and so does the caller
\* when it was the last hook.
C7_TimeoutKeepsPayload ==
    \A d \in Dispatches :
        \A i \in 1..Len(hmLog[d]) :
            hmLog[d][i].out = "timeout" =>
                /\ \E k \in 1..Len(hmResult[d].errors) :
                      /\ k = Len(ErrorsOf(SubSeq(hmLog[d], 1, i)))
                      /\ hmResult[d].errors[k] =
                            [hookId |-> hmLog[d][i].id, kind |-> "timeout"]
                /\ i < Len(hmLog[d]) => hmLog[d][i+1].input = hmLog[d][i].input
                /\ (i = Len(hmLog[d]) /\ hmPhase[d] = "done") =>
                      hmResult[d].modifiedData = hmLog[d][i].input
                /\ i = Len(hmLog[d]) => hmData[d] = hmLog[d][i].input

\* a hook timed out behind a hook that returned a value, the next hook ran,
\* and the late hook has settled since
C7_Witness ==
    /\ hmPhase[1] = "done"
    /\ Len(hmLog[1]) = 3
    /\ hmLog[1][1].out = "value"
    /\ hmLog[1][2].out = "timeout"
    /\ hmLog[1][3].out = "value"
    /\ hmLate = {}

\* the payload before invocation i of a log: what the most recent earlier
\* hook that returned a value returned, the original payload if there is none
CurrentPayload(log, i) ==
    LET prev == {j \in 1..(i-1) : log[j].out = "value"} IN
    IF prev = {} THEN OriginalPayload
    ELSE LET j == CHOOSE j \in prev : \A k \in prev : k <= j
         IN  HookResult(log[j], log[j].input, "value")[1]

\* C8: every hook receives the current payload, the final payload is the
\* current payload behind the last hook, and with no hook registered it is
\* the original payload, with hookCount 0.
C8_PayloadThreading ==
    \A d \in Dispatches :
        /\ \A i \in 1..Len(hmLog[d]) : hmLog[d][i].input = CurrentPayload(hmLog[d], i)
        /\ hmPhase[d] = "done" =>
              /\ hmResult[d].modifiedData = CurrentPayload(hmLog[d], Len(hmLog[d]) + 1)
              /\ hmSnap[d] = <<>> =>
                    /\ hmResult[d].modifiedData = OriginalPayload
                    /\ hmResult[d].hookCount = 0

\* a value, then undefined, then a failure: the payload is the first hook's
C8_Witness ==
    /\ hmPhase[1] = "done"
    /\ Len(hmLog[1]) = 3
    /\ hmLog[1][1].out = "value"
    /\ hmLog[1][2].out = "undef"
    /\ hmLog[1][3].out = "throw"
    /\ hmResult[1].modifiedData = <<hmLog[1][1].id>>

\* a dispatch over an empty registry returned
C8_WitnessEmpty ==
    /\ hmPhase[1] = "done"
    /\ hmResult[1].hookCount = 0

\* ---------------------------------------------------- HookableEventEmitter
\* registrations ever made on the emitter
MaxEmitterHooks == 3

\* the priorities on / once are called with (Priorities, index.ts)
EmitterPriorities == {0, 50, 100}

NoEmitterReg == [id |-> 0, priority |-> 0, given |-> 0, once |-> FALSE]


\* "priority: priority || 100", line 66
StoredPriority(priority) == IF priority = 0 THEN 100 ELSE priority

EEInit ==
    /\ emitterRegistrations = <<>>
    /\ nextHookId = 1
    /\ eePhase = "none"
    /\ eeIdx = 0
    /\ eeCur = NoEmitterReg
    /\ eeData = OriginalPayload
    /\ eeSnap = <<>>
    /\ eeLog = <<>>
    /\ eeMutated = FALSE

\* HookableEventEmitter.registerHook(event, hook, priority), lines 62-86;
\* given is the priority of the call, once tells a wrapper of once() from a
\* hook of on()
emitterRegisterHook(priority, once) ==
    /\ nextHookId <= MaxEmitterHooks
    /\ nextHookId' = nextHookId + 1
    /\ emitterRegistrations' = PushAndSort(emitterRegistrations,
          [id |-> nextHookId, priority |-> StoredPriority(priority),
           given |-> priority, once |-> once])
    /\ eeMutated' = (eeMutated \/ eePhase = "run")
    /\ UNCHANGED <<eePhase, eeIdx, eeCur, eeData, eeSnap, eeLog>>

\* HookableEventEmitter.on(event, hook, priority)
on(priority) == emitterRegisterHook(priority, FALSE)

\* HookableEventEmitter.once(event, hook, priority)
once(priority) == emitterRegisterHook(priority, TRUE)

\* HookableEventEmitter.unregisterHook(event, hook), lines 88-101: the
\* registration whose hook is the function; for a hook of once() that is the
\* wrapper
emitterUnregisterHook(regs, hookId) == RemoveById(regs, hookId)

\* HookableEventEmitter.off(event, hook) with a function given to on()
off(hookId) ==
    /\ hookId < nextHookId
    /\ \E i \in 1..Len(emitterRegistrations) :
          emitterRegistrations[i].id = hookId /\ ~emitterRegistrations[i].once
    /\ emitterRegistrations' = emitterUnregisterHook(emitterRegistrations, hookId)
    /\ UNCHANGED <<nextHookId, eePhase, eeIdx, eeCur, eeData, eeSnap, eeLog, eeMutated>>

\* One step of "for (const registration of registrations)" in executeHooks:
\* past the end of the live array currentData is returned; otherwise
\* registration.hook(currentData, context) is called, and the wrapper of a
\* once() hook unregisters itself before it calls the hook (lines 41-44).
EmitterIterateFrom(i, data, log) ==
    /\ eeIdx' = i
    /\ eeData' = data
    /\ IF i <= Len(emitterRegistrations)
       THEN LET reg == emitterRegistrations[i] IN
            /\ eePhase' = "run"
            /\ eeCur' = reg
            /\ eeLog' = Append(log, [id |-> reg.id, priority |-> reg.priority,
                                     given |-> reg.given, input |-> HookArgument(data),
                                     out |-> "pending"])
            /\ emitterRegistrations' =
                  IF reg.once THEN emitterUnregisterHook(emitterRegistrations, reg.id)
                  ELSE emitterRegistrations
       ELSE /\ eePhase' = "done"
            /\ eeCur' = NoEmitterReg
            /\ eeLog' = log
            /\ UNCHANGED emitterRegistrations

\* HookableEventEmitter.executeHooks(event, data, context), up to the first
\* await; with no registration it returns data at once (lines 105-108)
executeHooks ==
    /\ eePhase = "none"
    /\ eeSnap' = emitterRegistrations
    /\ EmitterIterateFrom(1, OriginalPayload, <<>>)
    /\ UNCHANGED <<nextHookId, eeMutated>>


\* The catch block of executeHooks, lines 142-164: its first statement reads
\* hookStartTime, a const of the try block that is not in scope here, so it
\* throws a ReferenceError and executeHooks rejects.
CatchBlock(log) ==
    /\ eePhase' = "rejected"
    /\ eeLog' = log
    /\ UNCHANGED <<emitterRegistrations, eeIdx, eeCur, eeData>>

\* The awaited hook settles and executeHooks resumes.
EmitterHookSettles(out) ==
    /\ eePhase = "run"
    /\ LET log == [eeLog EXCEPT ![Len(eeLog)].out = out]
           hookResult == HookResult(eeCur, eeLog[Len(eeLog)].input, out)
       IN  IF out = "throw"
           THEN CatchBlock(log)
           ELSE EmitterIterateFrom(eeIdx + 1, NextData(eeData, hookResult), log)
    /\ UNCHANGED <<nextHookId, eeSnap, eeMutated>>

\* ------------------------------------------------------------- StreamBuffer
\* chunks handed to addChunk
MaxChunks == 3
\* the clock stops here
MaxNow == 2
\* flush calls that await the flush pipeline at the same time
MaxFlights == 2

ChunkIds == 1..MaxChunks

\* the configurations a buffer is constructed with
Configs == [strategy : {"size", "time", "hybrid"}, maxSize : {2, 3, 4}, maxTime : {2}]

\* no flush call of the owner has ended yet
NoFlush == [result |-> "none", chunks |-> <<>>]

NoAdd == [accepted |-> FALSE, shouldFlush |-> FALSE, flushReason |-> "none",
          bufferedChunks |-> 0]

\* StreamBuffer constructor, lines 36-68: the timer is started for the time
\* and hybrid strategies
SBInit ==
    /\ config \in Configs
    /\ chunks = <<>>
    /\ isActive = TRUE
    /\ now = 0
    /\ createdAt = 0
    /\ lastChunkTime = 0
    /\ flushTimeout = IF config.strategy \in {"time", "hybrid"} THEN config.maxTime ELSE -1
    /\ totalChunksAdded = 0
    /\ totalFlushes = 0
    /\ immediates = <<>>
    /\ flights = <<>>
    /\ lastAdd = NoAdd
    /\ offered = 0
    /\ accepted = {}
    /\ delivered = [c \in ChunkIds |-> 0]
    /\ returned = [c \in ChunkIds |-> 0]
    /\ lastFlush = NoFlush
    /\ failed = {}

\* a flush predicate that applies the age test under every strategy
shouldFlushByAgeToo(n, t, last) ==
    IF n >= config.maxSize
    THEN [shouldFlush |-> TRUE, flushReason |-> "size"]
    ELSE IF t - createdAt >= config.maxTime
    THEN [shouldFlush |-> TRUE, flushReason |-> "time"]
    ELSE [shouldFlush |-> FALSE, flushReason |-> "none"]

\* a flush predicate whose hybrid strategy ignores the age of the buffer
shouldFlushHybridNoAge(n, t, last) ==
    IF n >= config.maxSize
    THEN [shouldFlush |-> TRUE, flushReason |-> "size"]
    ELSE IF config.strategy = "time" /\ t - createdAt >= config.maxTime
    THEN [shouldFlush |-> TRUE, flushReason |-> "time"]
    ELSE [shouldFlush |-> FALSE, flushReason |-> "none"]

\* StreamBuffer.shouldFlush, lines 161-193, of n chunks at time t; the
\* products with 0.7 and 0.5 are taken in tenths and halves
shouldFlush(n, t, last) ==
    LET age == t - createdAt
        timeSinceLastChunk == t - last
    IN  IF n >= config.maxSize
        THEN [shouldFlush |-> TRUE, flushReason |-> "size"]
        ELSE IF config.strategy = "time" /\ age >= config.maxTime
        THEN [shouldFlush |-> TRUE, flushReason |-> "time"]
        ELSE IF config.strategy = "hybrid" /\ age >= config.maxTime
        THEN [shouldFlush |-> TRUE, flushReason |-> "hybrid"]
        ELSE IF /\ config.strategy = "hybrid"
                /\ 10 * n >= 7 * config.maxSize
                /\ 2 * timeSinceLastChunk >= config.maxTime
        THEN [shouldFlush |-> TRUE, flushReason |-> "hybrid"]
        ELSE [shouldFlush |-> FALSE, flushReason |-> "none"]

\* time passes
Tick ==
    /\ now < MaxNow
    /\ now' = now + 1
    /\ UNCHANGED <<config, chunks, isActive, createdAt, lastChunkTime, flushTimeout,
                   totalChunksAdded, totalFlushes, immediates, flights, lastAdd,
                   offered, accepted, delivered, returned, lastFlush, failed>>

\* StreamBuffer.addChunk(chunk), lines 71-112
addChunk ==
    /\ offered < MaxChunks
    /\ offered' = offered + 1
    /\ IF ~isActive
       THEN /\ lastAdd' = NoAdd
            /\ UNCHANGED <<chunks, totalChunksAdded, lastChunkTime, immediates, accepted>>
       ELSE LET c == offered + 1
                flushCheck == shouldFlush(Len(chunks) + 1, now, now)
            IN  /\ chunks' = Append(chunks, c)
                /\ totalChunksAdded' = totalChunksAdded + 1
                /\ lastChunkTime' = now
                /\ accepted' = accepted \cup {c}
                /\ immediates' = IF flushCheck.shouldFlush
                                 THEN Append(immediates, flushCheck.flushReason)
                                 ELSE immediates
                /\ lastAdd' = [accepted |-> TRUE, shouldFlush |-> flushCheck.shouldFlush,
                               flushReason |-> flushCheck.flushReason,
                               bufferedChunks |-> Len(chunks) + 1]
    /\ UNCHANGED <<config, isActive, createdAt, flushTimeout, totalFlushes, now, flights,
                   delivered, returned, lastFlush, failed>>

\* StreamBuffer.addChunks(chunks), lines 115-158, with a batch of two chunks:
\* all are pushed, then the flush predicate is evaluated once
addChunks ==
    /\ offered + 2 <= MaxChunks
    /\ offered' = offered + 2
    /\ IF ~isActive
       THEN /\ lastAdd' = NoAdd
            /\ UNCHANGED <<chunks, totalChunksAdded, lastChunkTime, immediates, accepted>>
       ELSE LET flushCheck == shouldFlush(Len(chunks) + 2, now, now)
            IN  /\ chunks' = chunks \o <<offered + 1, offered + 2>>
                /\ totalChunksAdded' = totalChunksAdded + 2
                /\ lastChunkTime' = now
                /\ accepted' = accepted \cup {offered + 1, offered + 2}
                /\ immediates' = IF flushCheck.shouldFlush
                                 THEN Append(immediates, flushCheck.flushReason)
                                 ELSE immediates
                /\ lastAdd' = [accepted |-> TRUE, shouldFlush |-> flushCheck.shouldFlush,
                               flushReason |-> flushCheck.flushReason,
                               bufferedChunks |-> Len(chunks) + 2]
    /\ UNCHANGED <<config, isActive, createdAt, flushTimeout, totalFlushes, now, flights,
                   delivered, returned, lastFlush, failed>>

\* StreamBuffer.flush(reason) up to its await, lines 196-259, on a buffer
\* that is active and not empty: the chunks are copied and the copy is
\* handed to the flush pipeline (onFlush or processBufferFlush); the buffer
\* keeps them
FlushBegins(who, reason) ==
    /\ Len(flights) < MaxFlights
    /\ flights' = Append(flights, [who |-> who, chunksToFlush |-> chunks,
                                   reason |-> reason])
    /\ delivered' = [c \in ChunkIds |->
                        IF c \in {chunks[i] : i \in 1..Len(chunks)}
                        THEN delivered[c] + 1 ELSE delivered[c]]
    /\ UNCHANGED chunks

\* the early return of flush, lines 197-204
FlushSkips == ~isActive \/ chunks = <<>>

\* a flush call that returned the empty list
EmptyReturn == [result |-> "returned", chunks |-> <<>>]

\* an early return that counts as a flush
FlushReturnsEmptyCounted ==
    /\ lastFlush' = EmptyReturn
    /\ totalFlushes' = totalFlushes + 1
    /\ UNCHANGED <<flights, delivered, chunks>>

\* what the early return of flush does: return [], lines 197-204
FlushReturnsEmpty ==
    /\ lastFlush' = EmptyReturn
    /\ UNCHANGED <<flights, delivered, chunks, totalFlushes>>

\* the owner calls flush(reason) (BufferManager.flushBuffer, drain, or the
\* auto-flush of callLLMStream on shouldFlush); on an inactive or empty
\* buffer the call returns [] at once
flush(reason) ==
    /\ IF FlushSkips
       THEN FlushReturnsEmpty
       ELSE /\ FlushBegins("owner", reason)
            /\ UNCHANGED <<lastFlush, totalFlushes>>
    /\ UNCHANGED <<config, isActive, createdAt, lastChunkTime, flushTimeout,
                   totalChunksAdded, now, immediates, lastAdd, offered,
                   accepted, returned, failed>>

\* a setImmediate callback of addChunk runs: this.flush(flushReason), lines
\* 99-101
ImmediateRuns ==
    /\ immediates # <<>>
    /\ immediates' = Tail(immediates)
    /\ IF FlushSkips
       THEN UNCHANGED <<flights, delivered, chunks>>
       ELSE FlushBegins("immediate", Head(immediates))
    /\ UNCHANGED <<config, isActive, createdAt, lastChunkTime, flushTimeout,
                   totalChunksAdded, totalFlushes, now, lastAdd, offered, accepted,
                   returned, lastFlush, failed>>

\* the setTimeout callback of startFlushTimer runs, lines 308-312
TimerRuns ==
    /\ flushTimeout >= 0
    /\ now >= flushTimeout
    /\ flushTimeout' = -1
    /\ IF isActive /\ chunks # <<>>
       THEN FlushBegins("timer", "time")
       ELSE UNCHANGED <<flights, delivered, chunks>>
    /\ UNCHANGED <<config, isActive, createdAt, lastChunkTime, totalChunksAdded,
                   totalFlushes, now, immediates, lastAdd, offered, accepted, returned,
                   lastFlush, failed>>

RemoveAt(s, i) == SubSeq(s, 1, i-1) \o SubSeq(s, i+1, Len(s))

\* the chunks returned to the caller of the i-th flush in flight
Returns(i) ==
    [c \in ChunkIds |->
        IF /\ flights[i].who = "owner"
           /\ c \in {flights[i].chunksToFlush[k] : k \in 1..Len(flights[i].chunksToFlush)}
        THEN returned[c] + 1 ELSE returned[c]]

\* a flush that leaves the chunk list as it is
ChunksKept == chunks

\* "this.chunks = []" after a successful flush, line 262
ChunksAfterFlush == <<>>

\* a catch block that leaves the failed batch in the chunk list
FailedChunksKept == chunks

\* "this.chunks = []" after a failed flush, line 297
ChunksAfterFailure == <<>>

\* The flush pipeline of the i-th flush in flight resolves, lines 261-285:
\* the buffer is cleared and the processed chunks are returned.
FlushResolves(i) ==
    /\ i \in 1..Len(flights)
    /\ chunks' = ChunksAfterFlush
    /\ totalFlushes' = totalFlushes + 1
    /\ returned' = Returns(i)
    /\ flights' = RemoveAt(flights, i)
    /\ lastFlush' = IF flights[i].who = "owner"
                    THEN [result |-> "returned", chunks |-> flights[i].chunksToFlush]
                    ELSE lastFlush
    /\ UNCHANGED <<config, isActive, createdAt, lastChunkTime, flushTimeout,
                   totalChunksAdded, now, immediates, lastAdd, offered, accepted,
                   delivered, failed>>

\* The flush pipeline of the i-th flush in flight rejects, lines 287-299:
\* the buffer is cleared and the error is thrown.
FlushRejects(i) ==
    /\ i \in 1..Len(flights)
    /\ chunks' = ChunksAfterFailure
    /\ flights' = RemoveAt(flights, i)
    /\ lastFlush' = IF flights[i].who = "owner"
                    THEN [result |-> "threw", chunks |-> flights[i].chunksToFlush]
                    ELSE lastFlush
    /\ failed' = failed \cup {flights[i].chunksToFlush[k] :
                                  k \in 1..Len(flights[i].chunksToFlush)}
    /\ UNCHANGED <<config, isActive, createdAt, lastChunkTime, flushTimeout,
                   totalChunksAdded, totalFlushes, now, immediates, lastAdd, offered,
                   accepted, delivered, returned>>

\* StreamBuffer.destroy(), lines 437-448: pause(), then clear()
destroy ==
    /\ isActive' = FALSE
    /\ flushTimeout' = -1
    /\ chunks' = <<>>
    /\ returned' = [c \in ChunkIds |->
                       IF c \in {chunks[i] : i \in 1..Len(chunks)}
                       THEN returned[c] + 1 ELSE returned[c]]
    /\ UNCHANGED <<config, createdAt, lastChunkTime, totalChunksAdded, totalFlushes,
                   now, immediates, flights, lastAdd, offered, accepted, delivered,
                   lastFlush, failed>>


\* ------------------------------------------------------------ BufferManager
\* BufferManagerConfig.maxBuffers and cleanupAge of the manager under test
maxBuffers == 2
cleanupAge == 1
\* the clock of the manager stops here
BmMaxNow == 2
\* calls made on the manager
MaxBmCalls == 5
\* chunks handed to BufferManager.addChunk
MaxBmChunks == 2

\* the buffer ids the callers use
BufferIds == {"a", "b", "c"}

\* the configurations buffers are created with: a valid one, and a timed one
\* that validateBufferConfig rejects (maxSize 0)
BmConfigs == {[strategy |-> "size", maxSize |-> 2, maxTime |-> 2],
              [strategy |-> "time", maxSize |-> 0, maxTime |-> 2]}

\* no entry in the map
NoBuffer == [exists |-> FALSE, config |-> [strategy |-> "size", maxSize |-> 2, maxTime |-> 2],
             chunks |-> <<>>, isActive |-> FALSE, timer |-> FALSE,
             createdAt |-> 0, lastActivity |-> 0, lastChunkTime |-> 0]

\* new StreamBuffer(bufferOptions) and its BufferInfo, part_004 lines 105-115
\* and StreamBuffer.ts lines 36-68: the timer is started for the time and
\* hybrid strategies; the configuration is stored as given
NewBuffer(cfg, t) ==
    [exists |-> TRUE, config |-> cfg, chunks |-> <<>>, isActive |-> TRUE,
     timer |-> cfg.strategy \in {"time", "hybrid"},
     createdAt |-> t, lastActivity |-> t, lastChunkTime |-> t]

NoCall == [op |-> "none", id |-> "none", outcome |-> "none", chunks |-> {}]

\* BufferManager constructor, lines 45-67
BMInit ==
    /\ buffers = [id \in BufferIds |-> NoBuffer]
    /\ totalChunksProcessed = 0
    /\ bmNow = 0
    /\ bmCalls = 0
    /\ bmLast = NoCall
    /\ bmOffered = 0

\* this.buffers.size
Size(bs) == Cardinality({id \in BufferIds : bs[id].exists})

\* the chunks a buffer holds
Held(b) == {b.chunks[k] : k \in 1..Len(b.chunks)}

\* the test of cleanup, lines 334-338
TooOldOrInactive(b, t) ==
    LET age == t - b.createdAt
        inactiveTime == t - b.lastActivity
    IN  age > cleanupAge \/ 2 * inactiveTime > cleanupAge

\* the map after cleanup(), lines 329-354: every buffer that is too old or
\* inactive is destroyed and deleted
Cleaned(bs, t) ==
    [id \in BufferIds |->
        IF bs[id].exists /\ TooOldOrInactive(bs[id], t) THEN NoBuffer ELSE bs[id]]

\* a manager that overwrites an existing buffer
HasNever(bs, id) == FALSE

\* this.buffers.has(bufferId), line 79
Has(bs, id) == bs[id].exists

\* a manager without a buffer limit
AtLimitNever(bs) == FALSE

\* this.buffers.size >= this.config.maxBuffers, lines 84 and 93
AtLimit(bs) == Size(bs) >= maxBuffers

\* the map as createBuffer finds it at line 98 or leaves it when it throws:
\* cleanup() has run if the limit was reached
BeforeCreate(bs, t) == IF AtLimit(bs) THEN Cleaned(bs, t) ELSE bs

\* how createBuffer(id) gets past its two checks, lines 79-96: "created"
\* stands for the buffer being constructed and stored, lines 98-117
CreateOutcome(bs, id, t) ==
    IF Has(bs, id) THEN "exists"
    ELSE IF AtLimit(BeforeCreate(bs, t)) /\ AtLimit(bs) THEN "capacity"
    ELSE "created"

\* the map after createBuffer(id, {config}), lines 79-117
AfterCreate(bs, id, cfg, t) ==
    IF CreateOutcome(bs, id, t) = "exists" THEN bs
    ELSE IF CreateOutcome(bs, id, t) = "capacity" THEN BeforeCreate(bs, t)
    ELSE [BeforeCreate(bs, t) EXCEPT ![id] = NewBuffer(cfg, t)]

\* setupBufferEventListeners(bufferId, buffer), lines 120 and 300-311:
\* buffer.on('flushed', ...) is called, and a StreamBuffer has no method
\* "on" (StreamBuffer.ts 19-530), so the call throws a TypeError after the
\* buffer was stored
ListenersOutcome == "TypeError"

\* how createBuffer(id) ends for its caller, lines 79-129
CreateEnds(bs, id, t) ==
    IF CreateOutcome(bs, id, t) = "created" THEN ListenersOutcome
    ELSE CreateOutcome(bs, id, t)

\* BufferManager.createBuffer(bufferId, {config}), lines 70-130
createBuffer(id, cfg) ==
    /\ bmCalls < MaxBmCalls
    /\ bmCalls' = bmCalls + 1
    /\ buffers' = AfterCreate(buffers, id, cfg, bmNow)
    /\ bmLast' = [op |-> "createBuffer", id |-> id,
                  outcome |-> CreateEnds(buffers, id, bmNow), chunks |-> {}]
    /\ UNCHANGED <<totalChunksProcessed, bmNow, bmOffered>>

\* the map after getBuffer(id), lines 133-141: lastActivity is updated
Touched(bs, id, t) ==
    IF bs[id].exists THEN [bs EXCEPT ![id].lastActivity = t] ELSE bs

\* BufferManager.getBuffer(bufferId), lines 133-141 (flushBuffer and every
\* other access to a buffer go through it)
getBuffer(id) ==
    /\ bmCalls < MaxBmCalls
    /\ bmCalls' = bmCalls + 1
    /\ buffers' = Touched(buffers, id, bmNow)
    /\ bmLast' = [op |-> "getBuffer", id |-> id,
                  outcome |-> IF buffers[id].exists THEN "found" ELSE "undefined",
                  chunks |-> {}]
    /\ UNCHANGED <<totalChunksProcessed, bmNow, bmOffered>>

\* StreamBuffer.addChunk(chunk) on a buffer of the manager, StreamBuffer.ts
\* lines 76-84: an inactive buffer takes nothing
WithChunk(b, c, t) ==
    IF ~b.isActive THEN b
    ELSE [b EXCEPT !.chunks = Append(@, c), !.lastChunkTime = t]

\* BufferManager.addChunk(bufferId, chunk, {createIfNotExists, bufferConfig}),
\* lines 149-187: whatever createBuffer throws is caught and the call
\* returns { success: false }, lines 165-168
managerAddChunk(id, createIfNotExists, cfg) ==
    LET c == bmOffered + 1
        found == Touched(buffers, id, bmNow)
        creates == ~buffers[id].exists /\ createIfNotExists
        made == IF creates THEN AfterCreate(found, id, cfg, bmNow) ELSE found
        success == /\ made[id].exists
                   /\ (creates => CreateEnds(found, id, bmNow) = "returned")
    IN  /\ bmCalls < MaxBmCalls
        /\ bmOffered < MaxBmChunks
        /\ bmCalls' = bmCalls + 1
        /\ bmOffered' = bmOffered + 1
        /\ buffers' = IF success
                      THEN [made EXCEPT ![id] = WithChunk(@, c, bmNow)]
                      ELSE made
        /\ totalChunksProcessed' = IF success THEN totalChunksProcessed + 1
                                   ELSE totalChunksProcessed
        /\ bmLast' = [op |-> "addChunk", id |-> id,
                      outcome |-> IF success THEN "success" ELSE "failure",
                      chunks |-> {c}, createIfNotExists |-> createIfNotExists]
        /\ UNCHANGED bmNow

\* what removeBuffer hands to its caller of the chunks of the buffer it
\* destroyed: nothing, it returns a boolean, lines 288-296
RemovedChunks(b) == {}

\* BufferManager.removeBuffer(bufferId), lines 281-297
removeBuffer(id) ==
    /\ bmCalls < MaxBmCalls
    /\ bmCalls' = bmCalls + 1
    /\ buffers' = [buffers EXCEPT ![id] = NoBuffer]
    /\ bmLast' = [op |-> "removeBuffer", id |-> id,
                  outcome |-> IF buffers[id].exists THEN "true" ELSE "false",
                  chunks |-> IF buffers[id].exists THEN RemovedChunks(buffers[id])
                             ELSE {}]
    /\ UNCHANGED <<totalChunksProcessed, bmNow, bmOffered>>

\* BufferManager.cleanup(), lines 325-368, called by the interval of
\* startCleanupInterval or by the integrator
cleanup ==
    /\ bmCalls < MaxBmCalls
    /\ bmCalls' = bmCalls + 1
    /\ buffers' = Cleaned(buffers, bmNow)
    /\ bmLast' = [op |-> "cleanup", id |-> "none", outcome |-> "none", chunks |-> {}]
    /\ UNCHANGED <<totalChunksProcessed, bmNow, bmOffered>>

\* BufferManager.destroyAll(), lines 484-511
destroyAll ==
    /\ bmCalls < MaxBmCalls
    /\ bmCalls' = bmCalls + 1
    /\ buffers' = [id \in BufferIds |-> NoBuffer]
    /\ bmLast' = [op |-> "destroyAll", id |-> "none", outcome |-> "none",
                  chunks |-> UNION {Held(buffers[id]) : id \in BufferIds}]
    /\ UNCHANGED <<totalChunksProcessed, bmNow, bmOffered>>

\* BufferManager.pauseAll(), lines 462-470, with StreamBuffer.pause
pauseAll ==
    /\ bmCalls < MaxBmCalls
    /\ bmCalls' = bmCalls + 1
    /\ buffers' = [id \in BufferIds |->
                      IF buffers[id].exists
                      THEN [buffers[id] EXCEPT !.isActive = FALSE, !.timer = FALSE]
                      ELSE buffers[id]]
    /\ bmLast' = [op |-> "pauseAll", id |-> "none", outcome |-> "none", chunks |-> {}]
    /\ UNCHANGED <<totalChunksProcessed, bmNow, bmOffered>>

\* BufferManager.resumeAll(), lines 473-481, with StreamBuffer.resume
resumeAll ==
    /\ bmCalls < MaxBmCalls
    /\ bmCalls' = bmCalls + 1
    /\ buffers' = [id \in BufferIds |->
                      IF buffers[id].exists /\ ~buffers[id].isActive
                      THEN [buffers[id] EXCEPT
                               !.isActive = TRUE,
                               !.timer = buffers[id].config.strategy \in {"time", "hybrid"}]
                      ELSE buffers[id]]
    /\ bmLast' = [op |-> "resumeAll", id |-> "none", outcome |-> "none", chunks |-> {}]
    /\ UNCHANGED <<totalChunksProcessed, bmNow, bmOffered>>

\* time passes
BmTick ==
    /\ bmNow < BmMaxNow
    /\ bmNow' = bmNow + 1
    /\ UNCHANGED <<buffers, totalChunksProcessed, bmCalls, bmLast, bmOffered>>


\* ----------------------------------------- BufferFlushEvent.validateBufferConfig
\* A JavaScript value of a numeric field: a number, NaN, undefined, or a
\* string that is no number ('abc', given by a caller that is not type-checked,
\* as the strategy and the metrics flag of the contract tests are).
Num(n) == [kind |-> "number", value |-> n]
NaN == [kind |-> "NaN", value |-> 0]
Undefined == [kind |-> "undefined", value |-> 0]
NoNumber == [kind |-> "string", value |-> 0]

\* the values maxSize and maxTime are given
NumericValues == {Num(-1), Num(0), Num(1), NaN, Undefined, NoNumber}
\* the values strategy is given
StrategyValues == {"size", "time", "hybrid", "other", "undefined"}
\* the values enableMetrics is given: the booleans, undefined and a string
MetricsValues == {"true", "false", "undefined", "yes"}

CandidateConfigs ==
    [maxSize : NumericValues, maxTime : NumericValues, strategy : StrategyValues,
     enableMetrics : MetricsValues]

\* !x of JavaScript on a numeric field; a string that is not empty is truthy
Falsy(x) == x.kind \in {"undefined", "NaN"} \/ (x.kind = "number" /\ x.value = 0)

\* x <= 0 of JavaScript: false for NaN and for undefined and 'abc', which
\* convert to NaN
LessOrEqualZero(x) == x.kind = "number" /\ x.value <= 0

\* typeof x === 'boolean'
IsBoolean(x) == x \in {"true", "false"}

\* errors.push(message) under a condition
PushIf(errors, cond, message) == IF cond THEN Append(errors, message) ELSE errors

\* a validation that returns at the first error
validateFirstErrorOnly(c) ==
    LET all == PushIf(PushIf(PushIf(PushIf(<<>>,
                   Falsy(c.maxSize) \/ LessOrEqualZero(c.maxSize), "maxSize"),
                   Falsy(c.maxTime) \/ LessOrEqualZero(c.maxTime), "maxTime"),
                   c.strategy \notin {"size", "time", "hybrid"}, "strategy"),
                   ~IsBoolean(c.enableMetrics), "enableMetrics")
        errors == IF all = <<>> THEN all ELSE <<Head(all)>>
    IN  [called |-> TRUE, isValid |-> Len(errors) = 0, errors |-> errors]

\* BufferFlushEvent.validateBufferConfig(config), BufferEvent.ts lines 374-400;
\* an error message is modelled by the name of the field it is about
validateBufferConfig(c) ==
    LET e1 == PushIf(<<>>, Falsy(c.maxSize) \/ LessOrEqualZero(c.maxSize), "maxSize")
        e2 == PushIf(e1, Falsy(c.maxTime) \/ LessOrEqualZero(c.maxTime), "maxTime")
        e3 == PushIf(e2, c.strategy \notin {"size", "time", "hybrid"}, "strategy")
        errors == PushIf(e3, ~IsBoolean(c.enableMetrics), "enableMetrics")
    IN  [called |-> TRUE, isValid |-> Len(errors) = 0, errors |-> errors]

VCInit ==
    /\ vcConfig = [maxSize |-> Num(1), maxTime |-> Num(1), strategy |-> "size",
                   enableMetrics |-> "true"]
    /\ vcResult = [called |-> FALSE, isValid |-> FALSE, errors |-> <<>>]

\* a caller validates a configuration
Validates(c) ==
    /\ vcConfig' = c
    /\ vcResult' = validateBufferConfig(c)


\* ------------------------------------------------------------- HookableLLM
\* The constructor assigns the fields (HookableLLM.ts lines 38-90) and then
\* calls setupEventForwarding, which calls this.bufferManager.on (line 157), a
\* method BufferManager does not define.  The section models the methods on
\* the fields as the constructor assigned them.

\* calls of initialize, run, runStream and cleanup
MaxLlmCalls == 4
\* fragments the generation service streams in one call
MaxFragments == 3

\* the hook functions of the integrator
LlmHooks == {"h1", "h2"}
\* the fragments of a stream
Fragments == {"x", "y"}
\* options.bufferConfig.maxSize of a runStream call, strategy "size"
StreamSizes == {2, 4}

\* the streams the generation service can answer with
Streams == UNION {[1..n -> Fragments] : n \in 0..MaxFragments}

NoLlmCall == [op |-> "none", pc |-> "none", registered |-> {}, invoked |-> {}]
NoLlmCallEnded == [op |-> "none", outcome |-> "none", fragments |-> <<>>, content |-> <<>>,
                   totalChunks |-> 0]

LLMInit ==
    /\ isInitialized = FALSE
    /\ initializing = FALSE
    /\ managerHooks = {}
    /\ messageHooks = {}
    /\ llmCall = NoLlmCall
    /\ llmBufferCount = 0
    /\ llmCalls = <<>>
    /\ llmLast = NoLlmCallEnded


\* ------------------------------------------- BufferManager.flushAllBuffers
\* flushAllBuffers calls started
MaxFlushAlls == 2

NoFlushAll == [pc |-> "none", atCall |-> {}, passed |-> {}, current |-> "none",
               taken |-> <<>>, results |-> <<>>, calls |-> 0, interfered |-> FALSE]

FAInit ==
    /\ faOrder = <<>>
    /\ faCall = NoFlushAll

RECURSIVE Remaining(_, _)
\* the keys of order that are still in the map bs
Remaining(order, bs) ==
    IF order = <<>> THEN <<>>
    ELSE IF bs[Head(order)].exists THEN <<Head(order)>> \o Remaining(Tail(order), bs)
    ELSE Remaining(Tail(order), bs)

Keys(bs) == {id \in BufferIds : bs[id].exists}
Range(s) == {s[k] : k \in 1..Len(s)}

\* Map.set of a new key appends it, Map.delete and Map.clear take keys out
\* (part_004 lines 117, 293, 355, 498); no operation of the manager adds more
\* than one key
KeysAfter(order, bs) ==
    LET kept == Remaining(order, bs)
        added == Keys(bs) \ Range(kept)
    IN  IF added = {} THEN kept ELSE Append(kept, CHOOSE id \in added : TRUE)

\* the map changed under an operation of the manager: the iterator of a
\* flushAllBuffers in flight comes to the keys added, and a key deleted is no
\* entry it has passed any more
MapChanges ==
    /\ faOrder' = KeysAfter(faOrder, buffers')
    /\ faCall' = [faCall EXCEPT
                     !.passed = @ \cap Keys(buffers'),
                     !.interfered = @ \/ (faCall.pc = "flushing" /\ Keys(buffers') # Keys(buffers))]

\* an iterator that is exhausted after its first entry
NextEntryNone(order, passed) == IF passed = {} /\ order # <<>> THEN Head(order) ELSE "none"

\* the entry the iterator of the for...of loop yields next, line 260
NextEntry(order, passed) ==
    LET left == SelectSeq(order, LAMBDA id : id \notin passed)
    IN  IF left = <<>> THEN "none" ELSE Head(left)

\* StreamBuffer.flush up to its await, StreamBuffer.ts lines 196-246: nothing
\* to flush for a paused or empty buffer, else the chunks are copied
TakenByFlush(b) == IF ~b.isActive \/ b.chunks = <<>> THEN <<>> ELSE b.chunks

\* the loop of flushAllBuffers goes to the next entry, lines 260-262, or
\* ends, lines 271-277
Proceeds(call, order, bs) ==
    LET id == NextEntry(order, call.passed)
    IN  IF id = "none"
        THEN [call EXCEPT !.pc = "returned", !.current = "none", !.taken = <<>>]
        ELSE [call EXCEPT !.pc = "flushing", !.current = id, !.taken = TakenByFlush(bs[id]),
                          !.passed = @ \cup {id}]

\* BufferManager.flushAllBuffers(reason), lines 249-262: up to the await of
\* the first flush
flushAllBuffers ==
    /\ faCall.pc \in {"none", "returned"}
    /\ faCall.calls < MaxFlushAlls
    /\ faCall' = Proceeds([NoFlushAll EXCEPT !.atCall = Keys(buffers),
                                              !.calls = faCall.calls + 1],
                          faOrder, buffers)
    /\ UNCHANGED <<faOrder, bmVars>>

\* the buffer a flush has ended on: flush clears the chunk list when its
\* handler has resolved and when it has thrown, StreamBuffer.ts lines 260-261
\* and 294-296, unless it had returned at once, lines 197-204
Flushed(b, taken) == IF taken = <<>> THEN b ELSE [b EXCEPT !.chunks = <<>>]

\* the flush awaited ends, part_004 lines 262-269, and the loop goes on; a
\* flush that found chunks rejects if its handler throws
FlushAllResumes(rejects) ==
    /\ faCall.pc = "flushing"
    /\ rejects => faCall.taken # <<>>
    /\ LET id == faCall.current
           entry == [bufferId |-> id,
                     chunks |-> IF rejects THEN <<>> ELSE faCall.taken,
                     error |-> rejects]
           bs == [buffers EXCEPT ![id] = IF @.exists THEN Flushed(@, faCall.taken) ELSE @]
       IN  /\ buffers' = bs
           /\ faCall' = Proceeds([faCall EXCEPT !.results = Append(@, entry)], faOrder, bs)
    /\ UNCHANGED <<faOrder, totalChunksProcessed, bmNow, bmCalls, bmLast, bmOffered>>

\* ----------------------------------------- ChunkEvent: text to chunks and back
\* characters of a text
MaxText == 4
\* options.chunkSize and options.overlap
MaxChunkSize == 3
MaxOverlap == 3
\* chunks of a call that are kept; a call that ends at all ends within
\* MaxText chunks, and a loop that goes on pushes the same chunk for ever
MaxIterations == 6

Characters == {"a", "b"}
\* the texts handed to createChunksFromText
Texts == UNION {[1..n -> Characters] : n \in 0..MaxText}

CKInit ==
    /\ ckText = <<>>
    /\ ckChunkSize = 1
    /\ ckOverlap = 0
    /\ ckI = 0
    /\ ckChunks = <<>>
    /\ ckPc = "idle"
    /\ ckMerged = <<>>
    /\ ckOdd = FALSE


\* ------------------------------------------------------ ConversationHistory
\* ConversationHistory.maxMessagesPerConversation
maxMessagesPerConversation == 2
\* messages handed to addMessage and addMessages in a run
MaxAdded == 8
\* messages handed to one addMessages call
MaxBatch == 3

NoAddition == [op |-> "none", batch |-> <<>>, enforceMessageLimit |-> FALSE, before |-> <<>>]

CHInit ==
    /\ chMessages = <<>>
    /\ chAdded = 0
    /\ chLast = NoAddition

\* Array.prototype.splice(0, n): the array without its first n elements, all
\* of them if it has no more than n
SpliceFront(messages, n) ==
    IF n <= 0 THEN messages
    ELSE IF n >= Len(messages) THEN <<>>
    ELSE SubSeq(messages, n + 1, Len(messages))

\* a bulk addition that keeps the newest messages of the batch only
AppendedWithinLimit(messages, batch, enforceMessageLimit) ==
    LET all == messages \o batch
    IN  IF enforceMessageLimit
        THEN SpliceFront(all, Len(all) - maxMessagesPerConversation)
        ELSE all

\* ConversationHistory.addMessage, errors/index.ts lines 176-189
Pushed(messages, m, enforceMessageLimit) ==
    LET kept == IF enforceMessageLimit /\ Len(messages) >= maxMessagesPerConversation
                THEN SpliceFront(messages, Len(messages) - maxMessagesPerConversation + 1)
                ELSE messages
    IN  Append(kept, m)

\* ConversationHistory.addMessages, lines 239-255
Appended(messages, batch, enforceMessageLimit) ==
    LET totalMessages == Len(messages) + Len(batch)
        kept == IF enforceMessageLimit /\ totalMessages > maxMessagesPerConversation
                THEN SpliceFront(messages, totalMessages - maxMessagesPerConversation)
                ELSE messages
    IN  kept \o batch

\* ConversationHistory.addMessage(conversationId, message, options), lines
\* 158-219, on a conversation that exists
addMessage(enforceMessageLimit) ==
    /\ chAdded < MaxAdded
    /\ chAdded' = chAdded + 1
    /\ chMessages' = Pushed(chMessages, chAdded + 1, enforceMessageLimit)
    /\ chLast' = [op |-> "addMessage", batch |-> <<chAdded + 1>>,
                  enforceMessageLimit |-> enforceMessageLimit, before |-> chMessages]

\* ConversationHistory.addMessages(conversationId, messages, options), lines
\* 221-281, on a conversation that exists
addMessages(n, enforceMessageLimit) ==
    /\ chAdded + n <= MaxAdded
    /\ chAdded' = chAdded + n
    /\ LET batch == [k \in 1..n |-> chAdded + k]
       IN  /\ chMessages' = Appended(chMessages, batch, enforceMessageLimit)
           /\ chLast' = [op |-> "addMessages", batch |-> batch,
                         enforceMessageLimit |-> enforceMessageLimit, before |-> chMessages]


\* ------------------------------------------------------ JSONFilePersistence
\* saveConversation and deleteConversation calls made in a run
MaxJpCalls == 4
\* calls in flight at a time
MaxJpOverlap == 2

ConversationIds == {"c1", "c2", "c3"}
JpSlots == 1..MaxJpOverlap

NoJpCall == [op |-> "none", id |-> "none", pc |-> "none", loaded |-> {}]

JPInit ==
    /\ jpFile = {}
    /\ jpOps = [s \in JpSlots |-> NoJpCall]
    /\ jpCalls = 0
    /\ jpSaved = {}

\* the ids with a call in flight
JpBusy == {jpOps[s].id : s \in {t \in JpSlots : jpOps[t].op # "none"}}

\* a call is made for an id no call in flight is about: it goes up to its
\* first await
JpCalled(s, op, id) ==
    /\ jpCalls < MaxJpCalls
    /\ jpOps[s].op = "none"
    /\ id \notin JpBusy
    /\ jpCalls' = jpCalls + 1
    /\ jpOps' = [jpOps EXCEPT ![s] = [op |-> op, id |-> id, pc |-> "load", loaded |-> {}]]
    /\ UNCHANGED <<jpFile, jpSaved>>

\* JSONFilePersistence.saveConversation(history), lines 48-63
saveConversation(s, id) == JpCalled(s, "save", id)

\* JSONFilePersistence.deleteConversation(id), lines 88-90
deleteConversation(s, id) == JpCalled(s, "delete", id)

\* loadConversationsData has read the file, lines 64 and 90; the call goes on
\* to writeJsonFile
JpLoads(s) ==
    /\ jpOps[s].pc = "load"
    /\ jpOps' = [jpOps EXCEPT ![s].pc = "write", ![s].loaded = jpFile]
    /\ UNCHANGED <<jpFile, jpCalls, jpSaved>>

\* the conversations a call writes: those it loaded with its own change,
\* lines 65 and 91
JpWritten(call) ==
    IF call.op = "save" THEN call.loaded \cup {call.id} ELSE call.loaded \ {call.id}

\* writeJsonFile has replaced the file, lines 68 and 92, and the call returns
JpWrites(s) ==
    /\ jpOps[s].pc = "write"
    /\ jpFile' = JpWritten(jpOps[s])
    /\ jpSaved' = IF jpOps[s].op = "save" THEN jpSaved \cup {jpOps[s].id}
                  ELSE jpSaved \ {jpOps[s].id}
    /\ jpOps' = [jpOps EXCEPT ![s] = NoJpCall]
    /\ UNCHANGED jpCalls


\* ------------------------------------------------- StreamBuffer.updateConfig
\* updateConfig calls made in a run
MaxUpdates == 2

\* the partial configurations updateConfig is given; Undefined stands for a
\* key that is absent, "same" for an absent strategy
ConfigChanges ==
    [strategy : {"same", "size", "time", "hybrid", "other"},
     maxSize : {Undefined, Num(0), Num(3)},
     maxTime : {Undefined, Num(0), Num(1)}]

UCInit ==
    /\ ucCalls = 0
    /\ ucLast = [isValid |-> TRUE, threw |-> FALSE]

\* { ...this.config, ...newConfig }, StreamBuffer.ts line 368, as
\* validateBufferConfig reads it; a buffer is constructed with a boolean
\* enableMetrics
Merged(c, newConfig) ==
    [maxSize |-> IF newConfig.maxSize = Undefined THEN Num(c.maxSize) ELSE newConfig.maxSize,
     maxTime |-> IF newConfig.maxTime = Undefined THEN Num(c.maxTime) ELSE newConfig.maxTime,
     strategy |-> IF newConfig.strategy = "same" THEN c.strategy ELSE newConfig.strategy,
     enableMetrics |-> "true"]

\* Object.assign(this.config, newConfig), line 374
Assigned(c, newConfig) ==
    LET m == Merged(c, newConfig)
    IN  [strategy |-> m.strategy, maxSize |-> m.maxSize.value, maxTime |-> m.maxTime.value]

\* updateConfig, lines 384-394: the timer is restarted or cleared if the
\* strategy or maxTime changed, and left alone otherwise
TimerAfterUpdate(old, new, timeout, t) ==
    IF old.strategy # new.strategy \/ old.maxTime # new.maxTime
    THEN IF new.strategy \in {"time", "hybrid"} THEN t + new.maxTime ELSE -1
    ELSE timeout

\* StreamBuffer.updateConfig(newConfig), lines 366-395
updateConfig(newConfig) ==
    LET validation == validateBufferConfig(Merged(config, newConfig))
    IN  /\ ucCalls < MaxUpdates
        /\ ucCalls' = ucCalls + 1
        /\ ucLast' = [isValid |-> validation.isValid, threw |-> ~validation.isValid]
        /\ IF ~validation.isValid
           THEN UNCHANGED <<config, flushTimeout>>
           ELSE /\ config' = Assigned(config, newConfig)
                /\ flushTimeout' = TimerAfterUpdate(config, Assigned(config, newConfig),
                                                    flushTimeout, now)
        /\ UNCHANGED <<chunks, isActive, createdAt, lastChunkTime, totalChunksAdded,
                       totalFlushes, now, immediates, flights, lastAdd, offered, accepted,
                       delivered, returned, lastFlush, failed>>

\* StreamBuffer.pause(), lines 411-420
pause ==
    /\ isActive' = FALSE
    /\ flushTimeout' = -1
    /\ UNCHANGED <<config, chunks, createdAt, lastChunkTime, totalChunksAdded, totalFlushes,
                   now, immediates, flights, lastAdd, offered, accepted, delivered, returned,
                   lastFlush, failed>>

\* StreamBuffer.resume(), lines 423-434
resume ==
    /\ isActive' = TRUE
    /\ flushTimeout' = IF ~isActive /\ config.strategy \in {"time", "hybrid"}
                       THEN now + config.maxTime ELSE flushTimeout
    /\ UNCHANGED <<config, chunks, createdAt, lastChunkTime, totalChunksAdded, totalFlushes,
                   now, immediates, flights, lastAdd, offered, accepted, delivered, returned,
                   lastFlush, failed>>

MoreInit == LLMInit /\ CKInit /\ FAInit /\ CHInit /\ JPInit /\ UCInit

\* String.prototype.substring(from, to): both ends are brought into
\* 0..length, and swapped if from is the greater
Clamp(n, len) == IF n < 0 THEN 0 ELSE IF n > len THEN len ELSE n
substring(text, from, to) ==
    LET a == Clamp(from, Len(text))
        b == Clamp(to, Len(text))
        lo == IF a <= b THEN a ELSE b
        hi == IF a <= b THEN b ELSE a
    IN  SubSeq(text, lo + 1, hi)

Min(a, b) == IF a <= b THEN a ELSE b

\* an advance that leaves one character out between two chunks
AdvanceSkipping(chunkSize, overlap) == chunkSize - overlap + 1

\* createChunksFromText, line 493: i += chunkSize - overlap
Advance(chunkSize, overlap) == chunkSize - overlap

\* createChunksFromText(text, { chunkSize, overlap }), part_005 lines 474-493:
\* up to the first test of the loop
createChunksFromText(text, chunkSize, overlap) ==
    /\ ckPc \in {"idle", "returned", "merged"}
    /\ ckText' = text
    /\ ckChunkSize' = chunkSize
    /\ ckOverlap' = overlap
    /\ ckI' = 0
    /\ ckChunks' = <<>>
    /\ ckPc' = IF 0 < Len(text) THEN "loop" ELSE "returned"
    /\ ckMerged' = <<>>
    /\ ckOdd' = FALSE

\* a position left of the text by chunkSize or more: from all of them the
\* chunk is empty and not complete, and the position stands for them all
Positioned(i, chunkSize) == IF i < 0 - chunkSize THEN 0 - chunkSize ELSE i

\* one iteration of the loop, lines 493-510, with the test that follows it
ChunkLoop ==
    /\ ckPc = "loop"
    /\ LET content == substring(ckText, ckI, Min(ckI + ckChunkSize, Len(ckText)))
           isComplete == ckI + ckChunkSize >= Len(ckText)
           next == Positioned(ckI + Advance(ckChunkSize, ckOverlap), ckChunkSize)
       IN  /\ ckChunks' = IF Len(ckChunks) < MaxIterations
                          THEN Append(ckChunks, [content |-> content, index |-> Len(ckChunks),
                                                 isComplete |-> isComplete])
                          ELSE ckChunks
           /\ ckI' = IF isComplete THEN ckI ELSE next
           /\ ckPc' = IF isComplete \/ ~(next < Len(ckText)) THEN "returned" ELSE "loop"
    /\ ckOdd' = ~ckOdd
    /\ UNCHANGED <<ckText, ckChunkSize, ckOverlap, ckMerged>>

RECURSIVE InsertByIndex(_, _)
\* Array.prototype.sort((a, b) => a.index - b.index), a stable sort, by
\* insertion
InsertByIndex(sorted, c) ==
    IF sorted = <<>> THEN <<c>>
    ELSE IF c.index < Head(sorted).index THEN <<c>> \o sorted
    ELSE <<Head(sorted)>> \o InsertByIndex(Tail(sorted), c)

RECURSIVE SortByIndex(_)
SortByIndex(cs) ==
    IF cs = <<>> THEN <<>>
    ELSE InsertByIndex(SortByIndex(SubSeq(cs, 1, Len(cs) - 1)), cs[Len(cs)])

RECURSIVE Join(_)
\* chunks.map(chunk => chunk.content).join('')
Join(cs) == IF cs = <<>> THEN <<>> ELSE Head(cs).content \o Join(Tail(cs))

\* ChunkEvent.mergeChunks(chunks), lines 516-523, on the chunks returned
mergeChunks ==
    /\ ckPc = "returned"
    /\ ckMerged' = Join(SortByIndex(ckChunks))
    /\ ckChunks' = SortByIndex(ckChunks)
    /\ ckPc' = "merged"
    /\ UNCHANGED <<ckText, ckChunkSize, ckOverlap, ckI, ckOdd>>

\* how a call ended that has no stream
Ended(op, outcome) == [NoLlmCallEnded EXCEPT !.op = op, !.outcome = outcome]

\* HookableLLM.on('message:before', hook), lines 469-472
llmOn(h) ==
    /\ managerHooks' = managerHooks \cup {h}
    /\ UNCHANGED <<isInitialized, initializing, messageHooks, llmCall, llmBufferCount,
                   llmCalls, llmLast>>

\* HookableLLM.onMessageBefore(hook), lines 485-488
onMessageBefore(h) ==
    /\ messageHooks' = messageHooks \cup {h}
    /\ UNCHANGED <<isInitialized, initializing, managerHooks, llmCall, llmBufferCount,
                   llmCalls, llmLast>>

\* HookableLLM.initialize(), lines 186-199: up to the await of models.list()
initialize ==
    /\ Len(llmCalls) < MaxLlmCalls
    /\ ~initializing
    /\ llmCalls' = Append(llmCalls, "initialize")
    /\ initializing' = ~isInitialized
    /\ llmLast' = IF isInitialized THEN Ended("initialize", "resolved") ELSE llmLast
    /\ UNCHANGED <<isInitialized, managerHooks, messageHooks, llmCall, llmBufferCount>>

\* lines 200 and 209-217: the service answered, the statistics are read
InitializeSucceeds ==
    /\ initializing
    /\ initializing' = FALSE
    /\ isInitialized' = TRUE
    /\ llmLast' = Ended("initialize", "resolved")
    /\ UNCHANGED <<managerHooks, messageHooks, llmCall, llmBufferCount, llmCalls>>

\* lines 201-207 and 219-222: the service refused
InitializeFails ==
    /\ initializing
    /\ initializing' = FALSE
    /\ llmLast' = Ended("initialize", "rejected")
    /\ UNCHANGED <<isInitialized, managerHooks, messageHooks, llmCall, llmBufferCount,
                   llmCalls>>

\* the guard of run and runStream, lines 236-238 and 691-693, and the code up
\* to the await of the conversation, lines 240-263 and 695-719
Begins(op) ==
    /\ Len(llmCalls) < MaxLlmCalls
    /\ llmCall.op = "none"
    /\ llmCalls' = Append(llmCalls, op)
    /\ IF ~isInitialized
       THEN /\ llmLast' = Ended(op, "not initialized")
            /\ UNCHANGED llmCall
       ELSE /\ llmCall' = [op |-> op, pc |-> "conversation", registered |-> managerHooks,
                           invoked |-> {}]
            /\ UNCHANGED llmLast
    /\ UNCHANGED <<isInitialized, initializing, managerHooks, messageHooks, llmBufferCount>>

\* HookableLLM.run(prompt), lines 226-263
run == Begins("run")

\* run, lines 264-289: the conversation is there (created if it was missing),
\* the user message goes to messageEvent.processMessageBefore, which
\* dispatches the hooks of messageEvent (MessageEvent.ts lines 116-157)
RunDispatches ==
    /\ llmCall.op = "run" /\ llmCall.pc = "conversation"
    /\ llmCall' = [llmCall EXCEPT !.pc = "before", !.invoked = messageHooks]
    /\ UNCHANGED <<isInitialized, initializing, managerHooks, messageHooks, llmBufferCount,
                   llmCalls, llmLast>>

\* run, lines 291-313: the processed message is stored and the conversation
\* is sent to the generation service (callLLM)
RunCallsService ==
    /\ llmCall.op = "run" /\ llmCall.pc = "before"
    /\ llmCall' = [llmCall EXCEPT !.pc = "service"]
    /\ UNCHANGED <<isInitialized, initializing, managerHooks, messageHooks, llmBufferCount,
                   llmCalls, llmLast>>

\* run, lines 315-385: the service answered and the response is returned
RunResolves ==
    /\ llmCall.op = "run" /\ llmCall.pc = "service"
    /\ llmCall' = NoLlmCall
    /\ llmLast' = Ended("run", "returned")
    /\ UNCHANGED <<isInitialized, initializing, managerHooks, messageHooks, llmBufferCount,
                   llmCalls>>

\* HookableLLM.runStream(prompt, options), lines 681-719
runStream == Begins("runStream")

RECURSIVE Accumulate(_, _, _)
\* callLLMStream, lines 984-1035, on the fragments not yet received: a
\* fragment is added to the buffer of the call, and the buffer is flushed (its
\* chunks taken out) when the addition reports shouldFlush
Accumulate(held, fragments, maxSize) ==
    IF fragments = <<>> THEN held
    ELSE LET added == Append(held, Head(fragments))
         IN  Accumulate(IF Len(added) >= maxSize THEN <<>> ELSE added,
                        Tail(fragments), maxSize)

\* runStream, lines 778-800: the final flush of the buffer is the content
StreamResponse(fragments, maxSize) ==
    LET finalChunks == Accumulate(<<>>, fragments, maxSize)
    IN  [op |-> "runStream", outcome |-> "returned", fragments |-> fragments,
         content |-> finalChunks, totalChunks |-> Len(finalChunks)]

\* runStream, lines 721-826: the conversation is there, the buffer of the
\* call is created (BufferManager.createBuffer stores it and goes on to
\* setupBufferEventListeners), and, if that returns, the message is
\* dispatched, the service streams and the response is built
StreamEnds(fragments, maxSize) ==
    /\ llmCall.op = "runStream" /\ llmCall.pc = "conversation"
    /\ llmCall' = NoLlmCall
    /\ llmBufferCount' = llmBufferCount + 1
    /\ llmLast' = IF ListenersOutcome = "returned"
                  THEN StreamResponse(fragments, maxSize)
                  ELSE [Ended("runStream", ListenersOutcome) EXCEPT !.fragments = fragments]
    /\ UNCHANGED <<isInitialized, initializing, managerHooks, messageHooks, llmCalls>>

\* HookableLLM.cleanup(), lines 1079-1098
llmCleanup ==
    /\ Len(llmCalls) < MaxLlmCalls
    /\ llmCalls' = Append(llmCalls, "cleanup")
    /\ managerHooks' = {}
    /\ messageHooks' = {}
    /\ llmBufferCount' = 0
    /\ isInitialized' = FALSE
    /\ llmLast' = Ended("cleanup", "resolved")
    /\ UNCHANGED <<initializing, llmCall>>


\* ------------------------------------------------------------ specifications
\* every component as constructed; the buffer with any configuration
InitAnyConfig == HMInit /\ EEInit /\ SBInit /\ BMInit /\ VCInit /\ HRInit /\ MoreInit

\* the same with the buffer, which the hook registries never touch, in one
\* configuration
Init ==
    /\ HMInit /\ EEInit /\ SBInit /\ BMInit /\ VCInit /\ HRInit /\ MoreInit
    /\ config.strategy = "size" /\ config.maxSize = 2

\* the HookManager acts, the emitter does not
HMOnly == UNCHANGED <<eeVars, sbVars, bmVars, vcVars, hrVars, moreVars>>

\* the HookManager acts and its integrator keeps a record of the
\* unregistrations
HROnly == UNCHANGED <<eeVars, sbVars, bmVars, vcVars, moreVars>>

\* the emitter acts, the HookManager does not
EEOnly == UNCHANGED <<hmVars, sbVars, bmVars, vcVars, hrVars, moreVars>>

\* the stream buffer acts
SBOnly == UNCHANGED <<hmVars, eeVars, bmVars, vcVars, hrVars, moreVars>>

\* the buffer manager acts
BMOnly == UNCHANGED <<hmVars, eeVars, sbVars, vcVars, hrVars, moreVars>>

\* validateBufferConfig is called
VCOnly == UNCHANGED <<hmVars, eeVars, sbVars, bmVars, hrVars, moreVars>>

\* the dispatch has returned its result
Returned(d) == hmPhase[d] = "done"

\* One dispatch of the HookManager, with the registry changing before it and
\* under it at any time, followed until the dispatch has returned and the
\* hooks it left running have settled.  One-time hooks with a timeout are
\* left to SpecHMOverlap, which has them in one dispatch and in two.
HMNext ==
    \/ \E o \in PlainOptions :
          ~Returned(1) /\ registerHook(o.priority, o.timeout) /\ HMOnly
    \/ \E o \in {x \in OneTimeOptions : ~x.timeout} :
          ~Returned(1) /\ registerOneTimeHook(o.priority, o.timeout) /\ HMOnly
    \/ \E h \in HookIds : ~Returned(1) /\ unregisterHookById(h) /\ HMOnly
    \/ executeHooksWithMonitoring(1) /\ HMOnly
    \/ \E out \in {"value", "undef", "throw"} : HookSettles(1, out) /\ HMOnly
    \/ TimeoutFires(1) /\ HMOnly
    \/ \E l \in hmLate : LateSettles(l) /\ HMOnly

SpecHM == Init /\ [][HMNext]_vars

\* Two dispatches of the HookManager, one after the other or overlapping,
\* over fewer hooks.
HMNextOverlap ==
    \/ \E o \in PlainOptions :
          hmRegistered < MaxOverlapHooks /\ registerHook(o.priority, o.timeout) /\ HMOnly
    \/ \E o \in OneTimeOptions :
          /\ hmRegistered < MaxOverlapHooks
          /\ registerOneTimeHook(o.priority, o.timeout) /\ HMOnly
    \/ \E h \in HookIds : unregisterHookById(h) /\ HMOnly
    \/ \E d \in Dispatches : executeHooksWithMonitoring(d) /\ HMOnly
    \/ \E d \in Dispatches, out \in {"value", "undef", "throw"} :
          HookSettles(d, out) /\ HMOnly
    \/ \E d \in Dispatches : TimeoutFires(d) /\ HMOnly
    \/ \E l \in hmLate : LateSettles(l) /\ HMOnly

SpecHMOverlap == Init /\ [][HMNextOverlap]_vars

\* One executeHooks call of the emitter, with the registry changing under it.
EENext ==
    \/ \E p \in EmitterPriorities : on(p) /\ EEOnly
    \/ \E p \in EmitterPriorities : once(p) /\ EEOnly
    \/ \E h \in 1..MaxEmitterHooks : off(h) /\ EEOnly
    \/ executeHooks /\ EEOnly
    \/ \E out \in {"value", "undef", "throw"} : EmitterHookSettles(out) /\ EEOnly

SpecEE == Init /\ [][EENext]_vars

\* One StreamBuffer, its owner, its timer and the flush pipeline.
SBNext ==
    \/ Tick /\ SBOnly
    \/ addChunk /\ SBOnly
    \/ addChunks /\ SBOnly
    \/ flush("manual") /\ SBOnly
    \/ ImmediateRuns /\ SBOnly
    \/ TimerRuns /\ SBOnly
    \/ \E i \in 1..MaxFlights : FlushResolves(i) /\ SBOnly
    \/ \E i \in 1..MaxFlights : FlushRejects(i) /\ SBOnly
    \/ destroy /\ SBOnly

SpecSB == InitAnyConfig /\ [][SBNext]_vars

\* A StreamBuffer that is left alone: chunks arrive, but nobody calls flush
\* or destroy.  Only addChunk's own setImmediate callbacks and the timer
\* start flushes.
SBAloneNext ==
    \/ Tick /\ SBOnly
    \/ addChunk /\ SBOnly
    \/ addChunks /\ SBOnly
    \/ ImmediateRuns /\ SBOnly
    \/ TimerRuns /\ SBOnly
    \/ \E i \in 1..MaxFlights : FlushResolves(i) /\ SBOnly
    \/ \E i \in 1..MaxFlights : FlushRejects(i) /\ SBOnly

\* The event loop runs every callback that is due, time passes, and the
\* flush pipeline settles every flush it was given; chunks arrive or not.
SpecSBAlone ==
    /\ InitAnyConfig
    /\ [][SBAloneNext]_vars
    /\ WF_vars(Tick /\ SBOnly)
    /\ WF_vars(ImmediateRuns /\ SBOnly)
    /\ WF_vars(TimerRuns /\ SBOnly)
    /\ WF_vars(\E i \in 1..MaxFlights : (FlushResolves(i) \/ FlushRejects(i)) /\ SBOnly)

\* One BufferManager and its callers; the cleanup interval fires at any time.
BMNext ==
    \/ BmTick /\ BMOnly
    \/ \E id \in BufferIds, cfg \in BmConfigs : createBuffer(id, cfg) /\ BMOnly
    \/ \E id \in BufferIds : getBuffer(id) /\ BMOnly
    \/ \E id \in BufferIds, create \in BOOLEAN, cfg \in BmConfigs :
          managerAddChunk(id, create, cfg) /\ BMOnly
    \/ \E id \in BufferIds : removeBuffer(id) /\ BMOnly
    \/ cleanup /\ BMOnly
    \/ destroyAll /\ BMOnly
    \/ pauseAll /\ BMOnly
    \/ resumeAll /\ BMOnly

SpecBM == Init /\ [][BMNext]_vars

\* validateBufferConfig on every configuration of CandidateConfigs.
VCNext == \E c \in CandidateConfigs : Validates(c) /\ VCOnly

SpecVC == Init /\ [][VCNext]_vars

\* The registry of the HookManager under registrations, then unregistrations
\* by id (at any time) and by function, with one dispatch of hooks without
\* timeout.
HRNext ==
    \/ \E o \in {x \in PlainOptions : ~x.timeout} :
          /\ hmPhase[1] = "none" /\ hmUnregisterCalls = 0
          /\ registerHook(o.priority, o.timeout) /\ UNCHANGED hrVars /\ HROnly
    \/ \E o \in {x \in OneTimeOptions : ~x.timeout} :
          /\ hmPhase[1] = "none" /\ hmUnregisterCalls = 0
          /\ registerOneTimeHook(o.priority, o.timeout) /\ UNCHANGED hrVars /\ HROnly
    \/ \E h \in HookIds : UnregistersById(h) /\ HROnly
    \/ \E h \in HookIds : UnregistersByFunction(h) /\ HROnly
    \/ executeHooksWithMonitoring(1) /\ UNCHANGED hrVars /\ HROnly
    \/ \E out \in {"value", "undef", "throw"} :
          HookSettles(1, out) /\ UNCHANGED hrVars /\ HROnly

SpecHR == Init /\ [][HRNext]_vars

\* ------------------------------------------- HookableEventEmitter: claims
\* C9: executeHooks never rejects because a hook threw; the hooks behind the
\* failing hook still run and the caller receives a payload.
C9_NeverRejects ==
    /\ eePhase # "rejected"
    /\ \A i \in 1..Len(eeLog) :
          (eeLog[i].out = "throw" /\ i = Len(eeLog)) => eePhase = "done"

\* C10: with h1 registered at priority 0 and h2 at priority 50, each
\* appending its mark to the payload, the final payload is h1's mark then
\* h2's; a hook registered with priority 0 runs before every hook registered
\* with a positive priority.
C10_ZeroPriorityFirst ==
    /\ ~eeMutated =>
          \A i, j \in 1..Len(eeLog) :
              (eeLog[i].given = 0 /\ eeLog[j].given > 0) => i < j
    /\ ( /\ eePhase = "done"
         /\ Len(eeSnap) = 2
         /\ \E a, b \in 1..2 : /\ eeSnap[a].id = 1 /\ eeSnap[a].given = 0
                               /\ eeSnap[b].id = 2 /\ eeSnap[b].given = 50
         /\ Len(eeLog) = 2
         /\ \A i \in 1..2 : eeLog[i].out = "value" )
       => eeData = <<1, 2>>

\* the order of C1 holds of the stored priorities
EmitterStoredOrder ==
    ~eeMutated => \A i, j \in 1..Len(eeLog) : i < j => Before(eeLog[i], eeLog[j])

\* the payload threading of C8 holds of the emitter's loop
EmitterPayloadThreading ==
    /\ \A i \in 1..Len(eeLog) : eeLog[i].input = CurrentPayload(eeLog, i)
    /\ eePhase = "done" => eeData = CurrentPayload(eeLog, Len(eeLog) + 1)


\* ------------------------------------------------------ StreamBuffer claims
InBuffer(c) == \E i \in 1..Len(chunks) : chunks[i] = c

\* C3: a chunk that addChunk accepted, also one accepted while a flush awaits
\* its pipeline, is kept until a flush takes it: at every moment it is still
\* in the buffer, or it was handed to the flush pipeline, or destroy returned
\* it. No flush drops a chunk it did not take.
C3_NoChunkDropped ==
    \A c \in accepted : InBuffer(c) \/ delivered[c] >= 1 \/ returned[c] >= 1

\* C4: each accepted chunk is handed to the flush pipeline at most once and is
\* returned to a caller by at most one flush or destroy call.
C4_AtMostOnce ==
    \A c \in ChunkIds : delivered[c] <= 1 /\ returned[c] <= 1

\* the counters of the buffer agree with its history
StreamBufferCounters ==
    /\ totalChunksAdded = Cardinality(accepted)
    /\ accepted \subseteq 1..offered
    /\ \A i \in 1..Len(chunks) : chunks[i] \in accepted

\* C11: under the size strategy addChunk signals a flush exactly when the
\* chunk count after the add has reached maxSize, and then with the reason
\* "size"; no timer is ever armed, and no flush is scheduled or started for
\* any other reason than size, however much time has passed.
C11_SizeStrategy ==
    config.strategy = "size" =>
        /\ lastAdd.accepted =>
              /\ lastAdd.shouldFlush <=> lastAdd.bufferedChunks >= config.maxSize
              /\ lastAdd.shouldFlush => lastAdd.flushReason = "size"
        /\ flushTimeout = -1
        /\ \A i \in 1..Len(immediates) : immediates[i] = "size"
        /\ \A i \in 1..Len(flights) :
              /\ flights[i].who # "timer"
              /\ flights[i].who = "immediate" => flights[i].reason = "size"

\* with maxSize 3 the third of three adds is the first to signal, although
\* maxTime has passed
C11_Witness ==
    /\ config.strategy = "size" /\ config.maxSize = 3
    /\ now >= config.maxTime
    /\ offered = 3 /\ Len(chunks) = 3
    /\ lastAdd.shouldFlush /\ lastAdd.flushReason = "size"
    /\ immediates = <<"size">> /\ flights = <<>> /\ totalFlushes = 0
    /\ lastFlush = NoFlush /\ failed = {}

\* the age of the buffer when the last accepted add evaluated the flush
\* predicate: lastChunkTime is set by that add
AgeAtLastAdd == lastChunkTime - createdAt

\* C12: under the time strategy addChunk signals a flush exactly when the age
\* of the buffer has reached maxTime, whatever the number of chunks.
C12_TimePurelyAge ==
    (config.strategy = "time" /\ lastAdd.accepted) =>
        (lastAdd.shouldFlush <=> AgeAtLastAdd >= config.maxTime)

\* C13: an add that starts a new batch, after a flush has emptied the buffer,
\* does not signal a flush for a time reason: the new batch has no age yet.
C13_AgeOfBatch ==
    [][(/\ config.strategy \in {"time", "hybrid"}
        /\ totalFlushes >= 1 /\ chunks = <<>> /\ flights = <<>>
        /\ offered' # offered /\ lastAdd'.accepted)
       => lastAdd'.flushReason \notin {"time", "hybrid"}]_vars

\* now - lastChunkTime when an add evaluates the flush predicate: the add has
\* just set lastChunkTime (lines 84 and 132 come before lines 95 and 141)
IdleAtLastAdd == 0

\* C14: under the hybrid strategy addChunk signals a flush exactly when the
\* chunk count has reached maxSize, or the age of the buffer has reached
\* maxTime, or the count has reached 0.7 maxSize while the time since
\* lastChunkTime has reached 0.5 maxTime; the reason is "size" when the size
\* condition holds and "hybrid" otherwise.
C14_HybridPredicate ==
    (config.strategy = "hybrid" /\ lastAdd.accepted) =>
        LET n == lastAdd.bufferedChunks
            bySize == n >= config.maxSize
            byAge == AgeAtLastAdd >= config.maxTime
            byQuiet == 10 * n >= 7 * config.maxSize /\ 2 * IdleAtLastAdd >= config.maxTime
        IN  /\ lastAdd.shouldFlush <=> (bySize \/ byAge \/ byQuiet)
            /\ lastAdd.shouldFlush =>
                  lastAdd.flushReason = IF bySize THEN "size" ELSE "hybrid"

\* a hybrid buffer below maxSize signals because of its age
C14_Witness ==
    /\ config.strategy = "hybrid"
    /\ lastAdd.accepted /\ lastAdd.shouldFlush /\ lastAdd.flushReason = "hybrid"
    /\ lastAdd.bufferedChunks < config.maxSize
    /\ AgeAtLastAdd >= config.maxTime

\* a hybrid buffer that has reached maxSize and maxTime signals "size"
C14_WitnessSizeFirst ==
    /\ config.strategy = "hybrid"
    /\ lastAdd.accepted /\ lastAdd.shouldFlush /\ lastAdd.flushReason = "size"
    /\ AgeAtLastAdd >= config.maxTime

\* C15: of two flush calls of the owner with no add between them, only one
\* gets the accumulated chunks: no two of its calls are flushing the same
\* batch.
C15_FlushTwice ==
    \A i, j \in 1..Len(flights) :
        (i < j /\ flights[i].who = "owner" /\ flights[j].who = "owner") =>
            flights[i].chunksToFlush # flights[j].chunksToFlush

\* C16: a flush call on an empty buffer returns the empty list and changes
\* nothing.  A step on an empty chunk list that is no tick, no add, no
\* callback of a timer or of setImmediate, no end of a flush in flight and no
\* destroy is such a call: it leaves the counters and the chunk list as they
\* are, hands nothing to the flush pipeline, and has returned [].
C16_EmptyFlush ==
    [][(/\ chunks = <<>>
        /\ UNCHANGED <<now, offered, immediates, flushTimeout, flights, isActive>>)
       => /\ lastFlush' = EmptyReturn
          /\ UNCHANGED <<totalFlushes, totalChunksAdded, chunks, delivered, returned>>]_vars

\* a flush call on a buffer that an earlier flush has emptied returned []
C16_Witness ==
    /\ lastFlush = EmptyReturn
    /\ totalFlushes = 1 /\ chunks = <<>> /\ flights = <<>> /\ isActive
    /\ accepted # {}

\* the chunks of s are in the order in which they were added
InAddOrder(s) == \A i, j \in 1..Len(s) : i < j => s[i] < s[j]

C18_FailedFlush ==
    [][/\ failed' # failed =>
            /\ chunks' = <<>>
            /\ totalFlushes' = totalFlushes
            /\ \E i \in 1..Len(flights) :
                  /\ flights' = RemoveAt(flights, i)
                  /\ flights[i].who = "owner" =>
                        lastFlush' = [result |-> "threw",
                                      chunks |-> flights[i].chunksToFlush]
       /\ \A c \in failed' : ~\E k \in 1..Len(chunks') : chunks'[k] = c
       /\ \A c \in failed : delivered'[c] = delivered[c]]_vars

\* the flush of chunk 1 failed; chunk 2, added afterwards, was flushed alone
C18_Witness ==
    /\ failed = {1}
    /\ lastFlush = [result |-> "returned", chunks |-> <<2>>]
    /\ totalFlushes = 1 /\ chunks = <<>> /\ flights = <<>>
    /\ delivered[1] = 1 /\ returned[1] = 0

\* C19: on a time or hybrid buffer that is left alone, every chunk that
\* addChunk accepted is eventually handed to a flush.
C19_EventuallyFlushed ==
    \A c \in ChunkIds :
        (config.strategy \in {"time", "hybrid"} /\ isActive /\ c \in accepted)
            ~> (delivered[c] >= 1)

\* C19: as long as a time or hybrid buffer is active, its timer is pending.
C19_TimerStaysArmed ==
    (config.strategy \in {"time", "hybrid"} /\ isActive) => flushTimeout >= 0

\* C20: addChunk and addChunks only append and return a hint: every flush
\* that runs was called by the owner of the buffer or by the timer, never by
\* the buffer on behalf of an add.
C20_NoSelfFlush ==
    \A i \in 1..Len(flights) : flights[i].who \in {"owner", "timer"}

\* ---------------------------------------------------- BufferManager: claims
\* C21: createBuffer with the id of an existing buffer throws "already
\* exists" and changes nothing: that buffer and every other buffer of the
\* manager are as they were.
C21_DuplicateRejected ==
    [][\A id \in BufferIds :
          (/\ bmCalls' = bmCalls + 1
           /\ bmLast'.op = "createBuffer" /\ bmLast'.id = id
           /\ buffers[id].exists)
          => (bmLast'.outcome = "exists" /\ buffers' = buffers)]_vars

\* createBuffer("a") was refused while buffer a holds a chunk and buffer b
\* exists
C21_Witness ==
    /\ bmLast = [op |-> "createBuffer", id |-> "a", outcome |-> "exists", chunks |-> {}]
    /\ buffers["a"].exists /\ buffers["a"].chunks = <<1>>
    /\ buffers["b"].exists

\* the buffers that have been idle for longer than the cleanup age
IdleBeyondCleanupAge == {id \in BufferIds : /\ buffers[id].exists
                                            /\ bmNow - buffers[id].lastActivity > cleanupAge}

\* C22: with the manager at its maximum, createBuffer of a new id creates the
\* buffer exactly if some buffer has been idle for longer than the cleanup
\* age; if none has, it fails with the capacity error and the map is unchanged.
C22_FullCreate ==
    [][\A id \in BufferIds :
          (/\ bmCalls' = bmCalls + 1
           /\ bmLast'.op = "createBuffer" /\ bmLast'.id = id
           /\ ~buffers[id].exists
           /\ Size(buffers) >= maxBuffers)
          => IF IdleBeyondCleanupAge # {}
             THEN buffers'[id].exists
             ELSE bmLast'.outcome = "capacity" /\ buffers' = buffers]_vars

\* C23: the eviction pass (cleanup, by itself or inside a createBuffer on a
\* full manager) removes a buffer only if the buffer has received no chunk
\* for longer than the idle threshold, which is half the cleanup age.
C23_EvictsIdleOnly ==
    [][\A id \in BufferIds :
          (/\ bmLast'.op \in {"cleanup", "createBuffer"}
           /\ bmCalls' = bmCalls + 1
           /\ buffers[id].exists /\ ~buffers'[id].exists)
          => 2 * (bmNow - buffers[id].lastChunkTime) > cleanupAge]_vars

\* C24: the manager never owns more buffers than maxBuffers.
C24_AtMostMaxBuffers == Size(buffers) <= maxBuffers

\* the manager is full and has just refused a third buffer
C24_Witness ==
    /\ Size(buffers) = maxBuffers
    /\ bmLast.op = "createBuffer" /\ bmLast.outcome = "capacity"

\* the manager is full and addChunk with createIfNotExists has just failed
\* to create a further buffer
C24_WitnessAddChunk ==
    /\ Size(buffers) = maxBuffers
    /\ bmLast.op = "addChunk" /\ bmLast.outcome = "failure"
    /\ bmLast.createIfNotExists
    /\ ~buffers[bmLast.id].exists
    /\ bmCalls = maxBuffers + 1

\* C25: addChunk(id, chunk) routes the chunk to buffer id and to no other.
\* If the buffer exists the chunk is appended and the call succeeds; if it
\* is missing and createIfNotExists is false the call fails, no buffer is
\* created, nothing is stored and totalChunksProcessed stays; if it is
\* missing and createIfNotExists is true the buffer is created and holds
\* the chunk.
C25_Routes ==
    [][\A id \in BufferIds :
          (/\ bmCalls' = bmCalls + 1
           /\ bmLast'.op = "addChunk" /\ bmLast'.id = id)
          => LET c == bmOffered + 1
             IN  /\ \A o \in BufferIds \ {id} : c \notin Held(buffers'[o])
                 /\ buffers[id].exists =>
                       /\ bmLast'.outcome = "success"
                       /\ buffers'[id].exists
                       /\ buffers'[id].chunks = Append(buffers[id].chunks, c)
                 /\ (~buffers[id].exists /\ ~bmLast'.createIfNotExists) =>
                       /\ bmLast'.outcome = "failure"
                       /\ buffers' = buffers
                       /\ totalChunksProcessed' = totalChunksProcessed
                 /\ (~buffers[id].exists /\ bmLast'.createIfNotExists) =>
                       /\ buffers'[id].exists
                       /\ buffers'[id].chunks = <<c>>]_vars

\* C26: removing a buffer from the manager hands the chunks it held at that
\* time to the caller.
C26_RemovalReturnsRemainder ==
    [][\A id \in BufferIds :
          (/\ bmCalls' = bmCalls + 1
           /\ bmLast'.op = "removeBuffer" /\ bmLast'.id = id
           /\ buffers[id].exists)
          => (~buffers'[id].exists /\ bmLast'.chunks = Held(buffers[id]))]_vars

\* C26: StreamBuffer.destroy cancels the timer and returns the chunks the
\* buffer held; on a destroyed buffer no chunk is accepted and no timer or
\* setImmediate callback hands a chunk to the flush pipeline.
C26_DestroyedBufferIsSilent ==
    [][/\ (isActive /\ ~isActive') =>
            /\ flushTimeout' = -1 /\ chunks' = <<>>
            /\ \A c \in ChunkIds :
                  returned'[c] = returned[c] + (IF InBuffer(c) THEN 1 ELSE 0)
       /\ ~isActive => (delivered' = delivered /\ accepted' = accepted /\ ~isActive'
                        /\ flushTimeout' = -1)]_vars

\* ---------------------------------------------- validateBufferConfig: claims
\* x > 0 of JavaScript: false for NaN and for what converts to NaN
GreaterThanZero(x) == x.kind = "number" /\ x.value > 0

\* the rules a configuration violates, by the name of the field
ViolatedRules(c) ==
    (IF GreaterThanZero(c.maxSize) THEN {} ELSE {"maxSize"})
    \cup (IF GreaterThanZero(c.maxTime) THEN {} ELSE {"maxTime"})
    \cup (IF c.strategy \in {"size", "time", "hybrid"} THEN {} ELSE {"strategy"})
    \cup (IF c.enableMetrics \in {"true", "false"} THEN {} ELSE {"enableMetrics"})

\* the result lists every violated rule once, and isValid says there is none
Itemized(c, r) ==
    /\ {r.errors[k] : k \in 1..Len(r.errors)} = ViolatedRules(c)
    /\ Len(r.errors) = Cardinality(ViolatedRules(c))
    /\ r.isValid <=> ViolatedRules(c) = {}

\* C27: validateBufferConfig returns one error for each rule the
\* configuration violates (maxSize > 0, maxTime > 0, a known strategy, a
\* boolean enableMetrics) and isValid exactly if it violates none.
C27_Itemized == vcResult.called => Itemized(vcConfig, vcResult)

\* C27 on configurations whose maxSize and maxTime are numbers, NaN or
\* undefined
C27_ItemizedOnNumbers ==
    (/\ vcResult.called
     /\ vcConfig.maxSize.kind # "string" /\ vcConfig.maxTime.kind # "string")
        => Itemized(vcConfig, vcResult)

\* a configuration that violates all four rules was validated
C27_WitnessAllFour ==
    /\ vcResult.called
    /\ vcResult.errors = <<"maxSize", "maxTime", "strategy", "enableMetrics">>
    /\ ~vcResult.isValid

\* C28: every buffer the manager owns has a valid configuration: maxSize > 0,
\* maxTime > 0 and a known strategy.
C28_ValidConfigs ==
    \A id \in BufferIds :
        buffers[id].exists =>
            /\ buffers[id].config.maxSize > 0
            /\ buffers[id].config.maxTime > 0
            /\ buffers[id].config.strategy \in {"size", "time", "hybrid"}

C30_OffStopsInvocation ==
    \A h \in hmOff : \A k \in 1..Len(hmLog[1]) : hmLog[1][k].id # h

\* the HookableLLM acts
LLMOnly == UNCHANGED <<hmVars, eeVars, sbVars, bmVars, vcVars, hrVars, ckVars, faVars, chVars,
    jpVars, ucVars>>

\* a HookableLLM, its integrator and the generation service
LLMNext ==
    \/ \E h \in LlmHooks : llmOn(h) /\ LLMOnly
    \/ \E h \in LlmHooks : onMessageBefore(h) /\ LLMOnly
    \/ initialize /\ LLMOnly
    \/ InitializeSucceeds /\ LLMOnly
    \/ InitializeFails /\ LLMOnly
    \/ run /\ LLMOnly
    \/ RunDispatches /\ LLMOnly
    \/ RunCallsService /\ LLMOnly
    \/ RunResolves /\ LLMOnly
    \/ runStream /\ LLMOnly
    \/ \E fragments \in Streams, maxSize \in StreamSizes : StreamEnds(fragments, maxSize) /\ LLMOnly
    \/ llmCleanup /\ LLMOnly

SpecLLM == Init /\ [][LLMNext]_vars

\* the message of the run in flight goes to the generation service
SendsToService == llmCall.pc = "before" /\ llmCall'.pc = "service"

CKOnly == UNCHANGED <<hmVars, eeVars, sbVars, bmVars, vcVars, hrVars, llmVars, faVars, chVars,
    jpVars, ucVars>>

CKNext ==
    \/ \E text \in Texts, chunkSize \in 1..MaxChunkSize, overlap \in 0..MaxOverlap :
            createChunksFromText(text, chunkSize, overlap) /\ CKOnly
    \/ ChunkLoop /\ CKOnly
    \/ mergeChunks /\ CKOnly

SpecCK == Init /\ [][CKNext]_vars

\* the loop of createChunksFromText goes on as long as it can
SpecCKFair == Init /\ [][CKNext]_vars /\ WF_vars(ChunkLoop /\ CKOnly)

\* C32: for every text and chunkSize > 0 with overlap 0, mergeChunks of the
\* chunks of createChunksFromText is the text, and the chunks carry the indices
\* 0, 1, 2, ... in order with only the last one marked complete.
C32_RoundTrip ==
    (ckPc = "merged" /\ ckOverlap = 0) =>
        /\ ckMerged = ckText
        /\ \A k \in 1..Len(ckChunks) :
              /\ ckChunks[k].index = k - 1
              /\ ckChunks[k].isComplete <=> k = Len(ckChunks)

\* a text of several chunks, the last one shorter than chunkSize, was cut
\* and merged
C32_Witness ==
    /\ ckPc = "merged" /\ ckOverlap = 0
    /\ Len(ckChunks) = 2 /\ ckChunkSize = 3 /\ Len(ckText) = 4
    /\ ckMerged = ckText

\* the empty text was cut into no chunk and merged into the empty text
C32_WitnessEmpty == ckPc = "merged" /\ ckOverlap = 0 /\ ckText = <<>> /\ ckChunks = <<>>

\* C35: createChunksFromText terminates for every text, chunkSize > 0 and
\* overlap >= 0, overlap >= chunkSize included.
C35_Terminates == (ckPc = "loop") ~> (ckPc = "returned")

\* the buffer manager acts, with or without a flushAllBuffers in flight
FAOnly == UNCHANGED <<hmVars, eeVars, sbVars, vcVars, hrVars, llmVars, ckVars, chVars,
    jpVars, ucVars>>

FANext ==
    \/ \E id \in BufferIds, cfg \in BmConfigs : createBuffer(id, cfg) /\ MapChanges /\ FAOnly
    \/ \E id \in BufferIds, create \in BOOLEAN, cfg \in BmConfigs :
          managerAddChunk(id, create, cfg) /\ MapChanges /\ FAOnly
    \/ \E id \in BufferIds : removeBuffer(id) /\ MapChanges /\ FAOnly
    \/ pauseAll /\ MapChanges /\ FAOnly
    \/ flushAllBuffers /\ FAOnly
    \/ \E rejects \in BOOLEAN : FlushAllResumes(rejects) /\ FAOnly

SpecFA == Init /\ [][FANext]_vars

\* the bufferIds of the entries of a result list
ResultIds(results) == {results[k].bufferId : k \in 1..Len(results)}

\* C33 as stated: flushAllBuffers returns exactly one entry per buffer that
\* exists when it is called; a flush that fails is recorded in the entry of its
\* buffer, with no chunks and the error, and the other buffers are flushed all
\* the same; the call does not reject.
C33_OneEntryPerBufferAtCall ==
    faCall.pc = "returned" =>
        /\ ResultIds(faCall.results) = faCall.atCall
        /\ Len(faCall.results) = Cardinality(faCall.atCall)
        /\ \A k \in 1..Len(faCall.results) :
              faCall.results[k].error => faCall.results[k].chunks = <<>>

\* C33, amended: if no buffer is created or removed while the call is in
\* flight, flushAllBuffers returns exactly one entry per buffer that exists
\* when it is called; a flush that fails is recorded in the entry of its
\* buffer, with no chunks and the error, and the other buffers are flushed all
\* the same; the call does not reject.
C33_OneEntryPerBuffer ==
    (faCall.pc = "returned" /\ ~faCall.interfered) =>
        /\ ResultIds(faCall.results) = faCall.atCall
        /\ Len(faCall.results) = Cardinality(faCall.atCall)
        /\ \A k \in 1..Len(faCall.results) :
              faCall.results[k].error => faCall.results[k].chunks = <<>>

\* a call over two buffers returned undisturbed: the flush of the first
\* failed, the second was flushed all the same
C33_Witness ==
    /\ faCall.pc = "returned" /\ ~faCall.interfered
    /\ Len(faCall.results) = 2
    /\ faCall.results[1].error
    /\ ~faCall.results[2].error /\ faCall.results[2].chunks # <<>>

\* C34: at the end of every dispatch of the HookManager the hooks recorded as
\* executed and those recorded as failed are together as many as hookCount,
\* also when a one-shot hook unregisters itself during the dispatch.
C34_AllAccounted ==
    Returned(1) =>
        Len(hmResult[1].executedHooks) + Len(hmResult[1].errors) = hmResult[1].hookCount

\* messages are added to a conversation
CHOnly == UNCHANGED <<hmVars, eeVars, sbVars, bmVars, vcVars, hrVars, llmVars, ckVars, faVars,
    jpVars, ucVars>>

CHNext ==
    \/ \E enforce \in BOOLEAN : addMessage(enforce) /\ CHOnly
    \/ \E n \in 0..MaxBatch, enforce \in BOOLEAN : addMessages(n, enforce) /\ CHOnly

SpecCH == Init /\ [][CHNext]_vars

\* C36: with the message limit enforced, after every addMessage and
\* addMessages the conversation holds at most maxMessagesPerConversation
\* messages, and they are the most recent ones in their original order, also
\* when one addMessages call supplies more messages than the limit.
C36_WithinLimit ==
    (chLast.op # "none" /\ chLast.enforceMessageLimit) =>
        /\ Len(chMessages) <= maxMessagesPerConversation
        /\ chMessages = AppendedWithinLimit(chLast.before, chLast.batch, TRUE)

\* conversations are saved to and deleted from the file
JPOnly == UNCHANGED <<hmVars, eeVars, sbVars, bmVars, vcVars, hrVars, llmVars, ckVars, faVars,
    chVars, ucVars>>

JPNext ==
    \/ \E s \in JpSlots, id \in ConversationIds : saveConversation(s, id) /\ JPOnly
    \/ \E s \in JpSlots, id \in ConversationIds : deleteConversation(s, id) /\ JPOnly
    \/ \E s \in JpSlots : JpLoads(s) /\ JPOnly
    \/ \E s \in JpSlots : JpWrites(s) /\ JPOnly

SpecJP == Init /\ [][JPNext]_vars

\* C37: no update is lost when two saveConversation calls, or a save and a
\* delete, for different ids overlap: once the calls have returned, the file
\* holds every conversation saved and not deleted since, and no other.
C37_NoLostUpdate ==
    (\A s \in JpSlots : jpOps[s].op = "none") => jpFile = jpSaved

\* a stream buffer whose configuration is updated
UCOnly == UNCHANGED <<hmVars, eeVars, bmVars, vcVars, hrVars, llmVars, ckVars, faVars, chVars,
    jpVars>>

UCNext ==
    \/ Tick /\ UNCHANGED ucVars /\ UCOnly
    \/ addChunk /\ UNCHANGED ucVars /\ UCOnly
    \/ TimerRuns /\ UNCHANGED ucVars /\ UCOnly
    \/ pause /\ UNCHANGED ucVars /\ UCOnly
    \/ resume /\ UNCHANGED ucVars /\ UCOnly
    \/ \E newConfig \in ConfigChanges : updateConfig(newConfig) /\ UCOnly

SpecUC == InitAnyConfig /\ [][UCNext]_vars

\* a flush timer is pending
TimerRunning(timeout) == timeout >= 0

\* C40: an updateConfig whose merged configuration is invalid throws and
\* leaves the configuration, the chunk list and the timer as they were; after
\* one with a valid change a flush timer is running exactly if the new
\* strategy is "time" or "hybrid".
C40_UpdateConfig ==
    [][ucCalls' = ucCalls + 1 =>
          IF ucLast'.isValid
          THEN /\ ~ucLast'.threw
               /\ TimerRunning(flushTimeout') <=> config'.strategy \in {"time", "hybrid"}
          ELSE /\ ucLast'.threw
               /\ UNCHANGED <<config, chunks, flushTimeout>>]_vars

Calls(op) == llmCalls' = Append(llmCalls, op)

\* a run or runStream call in flight goes on: it creates its conversation or
\* its buffer, dispatches hooks or calls the generation service
PerformsWork == llmCall.op # "none" /\ llmCall' # llmCall

====
